---- MODULE Spec2Model ----
(***************************************************************************)
(* A model of the universal-translator relay: the server's socket handlers *)
(* (src/server/handlers.js and the two handler files of                    *)
(* src/unnamed/part_005), the client's synthesized-audio reassembly, its   *)
(* silence detector, its turn-taking controller and its translation        *)
(* stream handler (src/unnamed/part_000, src/unnamed/part_001), one        *)
(* utterance of a session between a client and its server, and several     *)
(* sockets on one server (src/src/app/api/socket/route.ts).                *)
(*                                                                         *)
(* Each component has its own specification (SpecServer, SpecAudio,        *)
(* SpecSilence, SpecTurn, SpecStream, SpecSession, SpecSockets,            *)
(* SpecUpload, SpecCycles, SpecConnect, SpecCapture, SpecDisplay,          *)
(* SpecBusy); the                                                          *)
(* variables of the other components stay at their initial values          *)
(* meanwhile.                                                              *)
(***************************************************************************)
EXTENDS Integers, Sequences, FiniteSets, TLC

VARIABLES
  variant,        \* which audioChunk handler file the server runs
  clientState,    \* the per-connection clientState object of the server
  calls,          \* the handler invocations of the session, in arrival order
  protocol,       \* the speech transfer events in use: speechChunk or speechData
  buffer,         \* the synthesized audio of the current transfer
  transfers,      \* the number of transfers begun
  wire,           \* the messages of the transfer not yet delivered to the client
  audioMetadataRef,   \* the client's audioMetadataRef.current
  audioChunksMapRef,  \* the client's audioChunksMapRef.current
  hasFinalized,   \* the client's hasFinalized.current
  played,         \* the buffers handed to playback during the current transfer
  signals,        \* what the client has seen of the current transfer (history)
  sent,           \* the events the server emitted for the current transfer, in order
  feedback,       \* what the client reported about the audio: console, status, URL
  now,            \* Date.now(), in milliseconds since the page was loaded
  capture,        \* isListening, isRecording, sourceLanguage and the recorder
  detector,       \* the silence detector set up by the recording effect
  run,            \* the run of silent samples the detector is in (history)
  clock,          \* the time of the turn-taking client, in milliseconds
  turn,           \* its languages, texts, isPlaying, isListening
  timers,         \* its pending timeouts
  turnLog,        \* what the current playback has led to (history)
  stream,         \* the client's handling of the translationStream events
  link,           \* the client's end of the session: events handled, requests sent
  ioServer,       \* which connection handler the socket server runs
  sockets,        \* the connected sockets: their clientState and what they received
  speech,         \* the runs of the server's generateSpeech handler, in arrival order
  channel,        \* the events in flight to the client, first emitted first
  finals,         \* the number of final translations the server has emitted
  conn,           \* the connection provider: its socket, connected, retryCountRef
  mic,            \* the capture of an utterance by the client and its upload
  page            \* what the page of the client shows

serverVars == <<variant, clientState, calls>>

audioVars == <<protocol, buffer, transfers, wire, audioMetadataRef,
               audioChunksMapRef, hasFinalized, played, signals, sent,
               feedback>>

silenceVars == <<now, capture, detector, run>>

turnVars == <<clock, turn, timers, turnLog>>

streamVars == <<stream>>

linkVars == <<link>>

socketVars == <<ioServer, sockets>>

cycleVars == <<speech, channel, finals>>

connVars == <<conn>>

captureVars == <<mic, page>>

vars == <<serverVars, audioVars, silenceVars, turnVars, streamVars, linkVars,
          socketVars, cycleVars, connVars, captureVars>>

\* What the steps of one component leave alone.
notLink == <<audioVars, silenceVars, turnVars, streamVars, socketVars,
            cycleVars, connVars, captureVars>>
notServer == <<notLink, linkVars>>
notAudio == <<serverVars, silenceVars, turnVars, streamVars, linkVars, socketVars,
             cycleVars, connVars,
  captureVars>>
notSilence == <<serverVars, audioVars, turnVars, streamVars, linkVars, socketVars,
               cycleVars, connVars,
  captureVars>>
notTurn == <<serverVars, audioVars, silenceVars, streamVars, linkVars, socketVars,
            cycleVars, connVars,
  captureVars>>
notSockets == <<serverVars, audioVars, silenceVars, turnVars, streamVars, linkVars,
               cycleVars, connVars,
  captureVars>>
notConnect == <<serverVars, audioVars, silenceVars, turnVars, streamVars,
               linkVars, socketVars, cycleVars, captureVars>>
\* the capture hands the audio to the server's handler
notPage == <<audioVars, silenceVars, turnVars, streamVars, socketVars,
            cycleVars, connVars>>
notCapture == <<notPage, linkVars>>
\* the synthesis cycles share the client's refs with the transfer
notCycles == <<serverVars, silenceVars, turnVars, streamVars, linkVars,
              socketVars, connVars, captureVars, protocol, buffer, transfers,
              wire, signals, sent>>
\* the translationStream handler of part_001 shares hasFinalized,
\* audioMetadataRef and audioChunksMapRef with the speech handlers
notStream == <<serverVars, silenceVars, turnVars, linkVars, socketVars,
               cycleVars, connVars, captureVars, protocol, buffer, transfers, wire, played, signals, sent,
               feedback>>

(***************************************************************************)
(* Bounds of the model.                                                    *)
(***************************************************************************)
MaxCalls == 2          \* handler invocations per session
MaxStreamChunks == 1   \* content chunks of one streamed translation
MaxBuffer == 6         \* bytes of one synthesized audio buffer
ChunkSize == 2         \* CHUNK_SIZE, scaled down from 16384 bytes
MaxTransfers == 1      \* synthesized-audio transfers, one after the other
MaxRequests == 2       \* final translations of one session, each a cause to ask for speech
MaxSpeechBytes == 4    \* bytes of the audio synthesized for one of them
MaxTime == 2000        \* milliseconds of capture followed
MaxCaptures == 1       \* recordings started
MaxClock == 1600       \* milliseconds of turn-taking followed
TickMs == 100          \* granularity of the turn-taking clock
MaxEnded == 2          \* 'ended' events the device fires for one playback
MaxPlaybacks == 1      \* playbacks started
MaxStreamEvents == 3   \* translationStream events of one utterance
MaxSockets == 2        \* sockets connected to the server at once
MaxConnects == 3       \* times the socket of the provider connects
MaxConnectErrors == 5  \* connect_error events in a row
MaxPendingTimers == 3  \* forced reconnects scheduled and not yet run
MaxRecordings == 1     \* recordings the user starts on one page
MaxEffectStops == 2    \* utterances the recorder of the recording effect emits
MaxChunks == 2         \* non-empty chunks the recorder delivers for one recording
MaxRecordingMs == 26000 \* milliseconds of one recording followed

(***************************************************************************)
(* Program constants.                                                      *)
(***************************************************************************)
MIN_AUDIO_BYTES == 1000
MIN_DIRECT_BYTES == 500
SILENCE_THRESHOLD == 10
SILENCE_DURATION == 1500
POLL_INTERVAL == 100
SWAP_DELAY == 500
SETTLE_DELAY == 300
MIN_SPEECH_CHARS == 2
STOP_DELAY == 100
FRAME_SILENCE_THRESHOLD == 15
maxRetries == 3
MIN_BLOB_BYTES == 1000
PARTIAL_MIN_BYTES == 500
TIMESLICE == 1000
maxRecordingDuration == 25000
maxAudioRetries == 2

(***************************************************************************)
(* Texts are sequences of tokens; " " is a whitespace token.               *)
(***************************************************************************)
Texts == {<<>>, <<" ">>, <<"hi">>}

RECURSIVE TrimLeft(_)
TrimLeft(t) == IF t # <<>> /\ Head(t) = " " THEN TrimLeft(Tail(t)) ELSE t

RECURSIVE TrimRight(_)
TrimRight(t) ==
  IF t # <<>> /\ t[Len(t)] = " " THEN TrimRight(SubSeq(t, 1, Len(t) - 1)) ELSE t

Trim(t) == TrimRight(TrimLeft(t))

\* A missing trim(): only the empty text counts as blank.
IsBlank_EmptyOnly(t) == t = <<>>

\* !transcription || transcription.trim() === ''
IsBlank(t) == t = <<>> \/ Trim(t) = <<>>

(***************************************************************************)
(*                    THE SERVER'S SOCKET HANDLERS                         *)
(*                                                                         *)
(* variant = "basic"   : src/server/handlers.js                            *)
(* variant = "guarded" : src/unnamed/part_005, second file (lines 340-884) *)
(* variant = "mime"    : src/unnamed/part_005, first file (lines 1-338)    *)
(***************************************************************************)
Variants == {"basic", "guarded", "mime"}

\* What a client may send as changeLanguage data: a language pair of the
\* conversation, or an object without the two fields.
LanguageData ==
  {[sourceLanguage |-> "en", targetLanguage |-> "es"],
   [sourceLanguage |-> "es", targetLanguage |-> "en"],
   [sourceLanguage |-> "", targetLanguage |-> ""]}

Buffer(n) == [present |-> TRUE, byteLength |-> n]

NoBuffer == [present |-> FALSE, byteLength |-> 0]

\* What a client may pass as the audio argument of audioChunk: nothing, or a
\* buffer that is empty, one byte short of the limit, or at the limit.
Payloads == {NoBuffer, Buffer(0), Buffer(MIN_AUDIO_BYTES - 1), Buffer(MIN_AUDIO_BYTES)}

\* The same for transcribeAudio, around its own limit.
DirectPayloads == {NoBuffer, Buffer(MIN_DIRECT_BYTES - 1), Buffer(MIN_AUDIO_BYTES - 1)}

\* What the transcription engine may answer: a text, or an exception.
TranscribeOutcomes ==
  {[ok |-> TRUE, text |-> t] : t \in Texts} \cup {[ok |-> FALSE, text |-> <<>>]}

TranslatedText == <<"hola">>

\* An event of the session; at is its place in the order in which the
\* server emitted the events of the session.  The order is followed when the
\* client's end of the session is attached (link.attached); at is 0 otherwise.
Event(name, text, final, message) ==
  [event |-> name, text |-> text, final |-> final, message |-> message, at |-> 0]

ErrorEvent(message) == Event("error", <<>>, FALSE, message)

TranscriptionEvent(text) == Event("transcription", text, TRUE, "")

NewCall(kind, p, hasAck, busy) ==
  [kind |-> kind, payload |-> p, hasAck |-> hasAck, pc |-> "done",
   busyAtArrival |-> busy, guard |-> FALSE, failed |-> FALSE,
   transcribeCalls |-> 0, translateCalls |-> 0,
   acks |-> <<>>, emitted |-> <<>>, text |-> <<>>, translatedText |-> <<>>]

\* The number of events the handlers of the session have emitted so far.
EmitCount ==
  Cardinality(UNION {{<<i, k>> : k \in 1..Len(calls[i].emitted)} :
                       i \in 1..Len(calls)})

\* socket.emit(...): the event takes the next place in the order of the session
Emit(c, e) ==
  LET fresh == Cardinality({k \in 1..Len(c.emitted) : c.emitted[k].at > EmitCount})
      at == IF link.attached THEN EmitCount + fresh + 1 ELSE 0
  IN [c EXCEPT !.emitted = Append(@, [e EXCEPT !.at = at])]

\* an engine call of the handler threw
Failed(c) == [c EXCEPT !.failed = TRUE]

Ack(c, value) == IF c.hasAck THEN [c EXCEPT !.acks = Append(@, value)] ELSE c

\* An audioChunk cycle of the session that has not returned yet.
InFlight(c) == c.kind = "audioChunk" /\ c.pc # "done"

CycleInFlight == \E i \in 1..Len(calls) : InFlight(calls[i])

\* A threshold slip: the limit of the transcribeAudio handler used for audioChunk.
TooSmall_DirectLimit(p) == ~p.present \/ p.byteLength < MIN_DIRECT_BYTES

\* if (!audioBuffer || !audioBuffer.byteLength || audioBuffer.byteLength < 1000)
TooSmall(p) == ~p.present \/ p.byteLength = 0 \/ p.byteLength < MIN_AUDIO_BYTES

\* if (!audioBuffer || audioBuffer.byteLength < 500)
TooSmallDirect(p) == ~p.present \/ p.byteLength < MIN_DIRECT_BYTES

\* if (clientState.isProcessing)
Busy(cs) == cs.isProcessing

\* clientState.isProcessing = true
BeginProcessing(cs) == [cs EXCEPT !.isProcessing = TRUE]

\* A missing finally block: the flag is left as it is.
Finally_Leak(cs) == cs

\* finally { clientState.isProcessing = false; }
Finally(cs) == [cs EXCEPT !.isProcessing = FALSE]

\* The guard is only held by the audioChunk cycles of the files that keep it.
Release(c, cs) == IF c.guard THEN Finally(cs) ELSE cs

\* socket.on('audioChunk', async (audioBuffer, ack) => ...), up to its first await
AudioChunkGuarded(c0) ==
  LET c1 == Ack(c0, "plain") IN
  IF TooSmall(c0.payload)
  THEN /\ calls' = Append(calls, Emit(c1, ErrorEvent("Audio too small or empty")))
       /\ UNCHANGED clientState
  ELSE IF Busy(clientState)
  THEN /\ calls' = Append(calls,
                      Emit(c1, ErrorEvent("Still processing previous audio")))
       /\ UNCHANGED clientState
  ELSE /\ calls' = Append(calls, [c1 EXCEPT !.pc = "transcribing", !.guard = TRUE,
                                            !.transcribeCalls = 1])
       /\ clientState' = BeginProcessing(clientState)

\* socket.on('audioChunk', async (audioBuffer, options, ack) => ...), up to its
\* first await.  Its first statement reads audioBuffer.byteLength, which throws
\* when no buffer was passed; the outer catch reports that.
AudioChunkMime(c0) ==
  /\ UNCHANGED clientState
  /\ IF ~c0.payload.present
     THEN calls' = Append(calls,
                     Ack(Emit(c0, ErrorEvent("Error processing audio")), "failure"))
     ELSE IF c0.payload.byteLength < MIN_AUDIO_BYTES
     THEN calls' = Append(calls, Ack(c0, "failure"))
     ELSE calls' = Append(calls, [Ack(c0, "success") EXCEPT !.pc = "transcribing",
                                                         !.transcribeCalls = 1])

AudioChunk(p, hasAck) ==
  /\ Len(calls) < MaxCalls
  /\ UNCHANGED <<variant, notServer>>
  /\ LET c0 == NewCall("audioChunk", p, hasAck, CycleInFlight) IN
     IF variant = "mime" THEN AudioChunkMime(c0) ELSE AudioChunkGuarded(c0)

\* socket.on('transcribeAudio', async (audioBuffer) => ...), up to its first await
TranscribeAudioHandler(c0) ==
  /\ UNCHANGED clientState
  /\ IF TooSmallDirect(c0.payload)
     THEN calls' = Append(calls,
                     Emit(c0, ErrorEvent("Invalid or too small audio data")))
     ELSE calls' = Append(calls, [c0 EXCEPT !.pc = "transcribing",
                                            !.transcribeCalls = 1])

TranscribeAudio(p) ==
  /\ variant = "guarded"
  /\ Len(calls) < MaxCalls
  /\ UNCHANGED <<variant, notServer>>
  /\ TranscribeAudioHandler(NewCall("transcribeAudio", p, FALSE, CycleInFlight))

\* The continuation of an audioChunk cycle after  await transcribeAudio(...)
AfterTranscribeGuarded(i, r) ==
  LET c == calls[i] IN
  IF ~r.ok
  THEN /\ calls' = [calls EXCEPT ![i] =
                      Emit(Failed([c EXCEPT !.pc = "done"]),
                           ErrorEvent("Error processing audio"))]
       /\ clientState' = Finally(clientState)
  ELSE IF IsBlank(r.text)
  THEN /\ calls' = [calls EXCEPT ![i] =
                      Emit([c EXCEPT !.pc = "done"], TranscriptionEvent(<<>>))]
       /\ clientState' = Finally([clientState EXCEPT !.isProcessing = FALSE])
  ELSE /\ calls' = [calls EXCEPT ![i] =
                      Emit([c EXCEPT !.pc = "translating", !.text = r.text,
                                     !.translateCalls = @ + 1],
                           TranscriptionEvent(r.text))]
       /\ UNCHANGED clientState

AfterTranscribeMime(i, r) ==
  LET c == calls[i] IN
  /\ UNCHANGED clientState
  /\ IF ~r.ok
     THEN calls' = [calls EXCEPT ![i] =
                      Ack(Emit(Failed([c EXCEPT !.pc = "done"]),
                               ErrorEvent("Error processing audio")), "failure")]
     ELSE IF IsBlank(r.text)
     THEN calls' = [calls EXCEPT ![i] =
                      Emit([c EXCEPT !.pc = "done"], TranscriptionEvent(<<>>))]
     ELSE calls' = [calls EXCEPT ![i] =
                      Emit([c EXCEPT !.pc = "done", !.text = r.text],
                           TranscriptionEvent(r.text))]

\* The continuation of the transcribeAudio handler after its transcription.
AfterTranscribeDirect(i, r) ==
  LET c == calls[i] IN
  /\ UNCHANGED clientState
  /\ IF ~r.ok
     THEN calls' = [calls EXCEPT ![i] =
                      Emit(Failed([c EXCEPT !.pc = "done"]),
                           ErrorEvent("Transcription error"))]
     ELSE IF Trim(r.text) = <<>>
     THEN calls' = [calls EXCEPT ![i] =
                      Emit([c EXCEPT !.pc = "done"], TranscriptionEvent(r.text))]
     ELSE calls' = [calls EXCEPT ![i] =
                      Emit([c EXCEPT !.pc = "translating", !.text = r.text,
                                     !.translateCalls = @ + 1],
                           TranscriptionEvent(r.text))]

TranscribeReturn(i, r) ==
  /\ i \in 1..Len(calls)
  /\ calls[i].pc = "transcribing"
  /\ UNCHANGED <<variant, notServer>>
  /\ IF calls[i].kind = "transcribeAudio" THEN AfterTranscribeDirect(i, r)
     ELSE IF variant = "mime" THEN AfterTranscribeMime(i, r)
     ELSE AfterTranscribeGuarded(i, r)

\* The message of the catch block that a failed translation reaches.
CatchMessage(c) ==
  IF c.kind = "transcribeAudio" THEN "Transcription error"
  ELSE IF c.kind = "startTranslation" THEN "Translation error"
  ELSE "Error processing audio"

\* Whether the catch block emits an 'error' event: the startTranslation handler
\* of the file that keeps isProcessing only calls console.error.
CatchEmits(c) == ~(c.kind = "startTranslation" /\ variant = "guarded")

\* The error path of a cycle whose translation threw.
TranslationFailed(i) ==
  LET c == Failed([calls[i] EXCEPT !.pc = "done"]) IN
  /\ calls' = [calls EXCEPT ![i] =
                 IF CatchEmits(c) THEN Emit(c, ErrorEvent(CatchMessage(c))) ELSE c]
  /\ clientState' = Release(c, clientState)

\* The continuation after  await translateText(...)  (handlers.js), or after the
\* streaming request was opened (translateTextWithOpenAI).
TranslateReturn(i, ok) ==
  /\ i \in 1..Len(calls)
  /\ calls[i].pc = "translating"
  /\ UNCHANGED <<variant, notServer>>
  /\ LET c == calls[i] IN
     IF ~ok THEN TranslationFailed(i)
     ELSE IF variant = "basic"
     THEN /\ calls' = [calls EXCEPT ![i] =
                         Emit([c EXCEPT !.pc = "done",
                                        !.translatedText = TranslatedText],
                              Event("translation", TranslatedText, TRUE, ""))]
          /\ clientState' = Release(c, clientState)
     ELSE IF variant = "mime"
     THEN /\ calls' = [calls EXCEPT ![i] =
                         Emit([c EXCEPT !.pc = "done",
                                        !.translatedText = TranslatedText],
                              Event("translationStream", TranslatedText, TRUE, ""))]
          /\ UNCHANGED clientState
     ELSE /\ calls' = [calls EXCEPT ![i].pc = "streaming"]
          /\ UNCHANGED clientState

\* for await (const chunk of stream): one chunk with content
StreamChunk(i) ==
  /\ i \in 1..Len(calls)
  /\ calls[i].pc = "streaming"
  /\ Len(calls[i].translatedText) < MaxStreamChunks
  /\ UNCHANGED <<variant, clientState, notServer>>
  /\ LET text == calls[i].translatedText \o <<"ho">> IN
     calls' = [calls EXCEPT ![i] =
                 Emit([calls[i] EXCEPT !.translatedText = text],
                      Event("translationStream", text, FALSE, ""))]

\* the stream throws while it is iterated
StreamFail(i) ==
  /\ i \in 1..Len(calls)
  /\ calls[i].pc = "streaming"
  /\ UNCHANGED <<variant, notServer>>
  /\ TranslationFailed(i)

\* the stream ends: the final translationStream event, then the handler returns
StreamEnd(i) ==
  /\ i \in 1..Len(calls)
  /\ calls[i].pc = "streaming"
  /\ UNCHANGED <<variant, notServer>>
  /\ calls' = [calls EXCEPT ![i] =
                 Emit([calls[i] EXCEPT !.pc = "done"],
                      Event("translationStream", calls[i].translatedText, TRUE, ""))]
  /\ clientState' = Release(calls[i], clientState)

\* socket.on('changeLanguage', (data) => ...): data.sourceLanguage || 'en'
ChangeLanguage(data) ==
  /\ variant # "mime"
  /\ clientState' =
       [clientState EXCEPT
          !.sourceLanguage = IF data.sourceLanguage = "" THEN "en"
                             ELSE data.sourceLanguage,
          !.targetLanguage = IF data.targetLanguage = "" THEN "es"
                             ELSE data.targetLanguage]
  /\ UNCHANGED <<variant, calls, notServer>>

\* An endAudioStream handler that only looks at the guard.
HasAudioToProcess_GuardOnly(cs) == ~cs.isProcessing

\* if (clientState.audioBuffer && !clientState.isProcessing)
HasAudioToProcess(cs) == cs.audioBuffer /\ ~cs.isProcessing

\* socket.on('endAudioStream', async () => ...): nothing ever assigns
\* clientState.audioBuffer, so the condition is false and the handler returns.
EndAudioStream ==
  /\ variant # "mime"
  /\ UNCHANGED <<variant, notServer>>
  /\ IF HasAudioToProcess(clientState)
     THEN /\ Len(calls) < MaxCalls
          /\ clientState' = BeginProcessing(clientState)
          /\ calls' = Append(calls,
                        [NewCall("endAudioStream", NoBuffer,
                                 FALSE, CycleInFlight)
                           EXCEPT !.pc = "transcribing", !.guard = TRUE])
     ELSE UNCHANGED <<clientState, calls>>

EngineStep ==
  \E i \in 1..Len(calls) :
    \/ \E r \in TranscribeOutcomes : TranscribeReturn(i, r)
    \/ \E ok \in BOOLEAN : TranslateReturn(i, ok)
    \/ StreamChunk(i)
    \/ StreamFail(i)
    \/ StreamEnd(i)

\* A request the client has emitted: startTranslation or generateSpeech.
Request(name, text) == [event |-> name, text |-> text]

\* The next request of the client the server has not handled yet.
Pending == link.taken < Len(link.sent)

NextRequest == link.sent[link.taken + 1]

\* socket.on('startTranslation', async (data) => ...), up to its first await.
\* The client always sends its two languages with the text.
StartTranslation ==
  /\ variant # "basic"
  /\ Pending
  /\ NextRequest.event = "startTranslation"
  /\ link' = [link EXCEPT !.taken = @ + 1]
  /\ UNCHANGED <<variant, clientState, notLink>>
  /\ LET data == NextRequest
         c0 == NewCall("startTranslation", NoBuffer, FALSE, Busy(clientState))
         c1 == [c0 EXCEPT !.pc = "translating", !.text = data.text,
                          !.translateCalls = 1]
     IN IF variant = "mime"
        THEN calls' = Append(calls,
                        IF data.text = <<>>
                        THEN Emit(c0, ErrorEvent("Missing translation parameters"))
                        ELSE c1)
        ELSE calls' = Append(calls, IF IsBlank(data.text) THEN c0 ELSE c1)

\* socket.on('generateSpeech', async (data) => ...), up to the synthesis call
SpeechRequest ==
  /\ variant # "basic"
  /\ Pending
  /\ NextRequest.event = "generateSpeech"
  /\ link' = [link EXCEPT !.taken = @ + 1]
  /\ UNCHANGED <<variant, clientState, notLink>>
  /\ LET data == NextRequest
         c0 == NewCall("generateSpeech", NoBuffer, variant = "mime",
                       Busy(clientState))
         c1 == IF variant = "mime" THEN Ack(c0, "plain") ELSE c0
     IN calls' = Append(calls,
                   IF data.text = <<>>
                   THEN Emit(c1, ErrorEvent(IF variant = "mime"
                                            THEN "Missing speech generation parameters"
                                            ELSE "Text for speech synthesis is required"))
                   ELSE [c1 EXCEPT !.pc = "synthesizing", !.text = data.text])

\* The continuation after the synthesis call: the metadata and the chunks of
\* the audio, or the catch block.
SpeechReturn(i, ok) ==
  /\ i \in 1..Len(calls)
  /\ calls[i].pc = "synthesizing"
  /\ UNCHANGED <<variant, clientState, notServer>>
  /\ LET c == [calls[i] EXCEPT !.pc = "done"]
         name == IF variant = "mime" THEN "speechData" ELSE "speechChunk"
         metadata == IF variant = "mime" THEN "speechData" ELSE "speechStart"
     IN calls' = [calls EXCEPT ![i] =
                    IF ok
                    THEN Emit(Emit(c, Event(metadata, <<>>, FALSE, "")),
                              Event(name, <<>>, TRUE, ""))
                    ELSE Emit(Failed(c),
                              ErrorEvent(IF variant = "mime"
                                         THEN "Speech generation error"
                                         ELSE "Error generating speech"))]

\* handlers.js registers no handler for startTranslation or generateSpeech:
\* the request is dropped.
NoHandler ==
  /\ variant = "basic"
  /\ Pending
  /\ link' = [link EXCEPT !.taken = @ + 1]
  /\ UNCHANGED <<serverVars, notLink>>

\* The client sends the audio of the utterance: an audioChunk of valid size,
\* with an acknowledgment callback (part_000:321, 1160) or without (part_001:832).
Utterance ==
  /\ calls = <<>>
  /\ LET c0 == NewCall("audioChunk", Buffer(MIN_AUDIO_BYTES),
                       variant # "guarded", CycleInFlight)
     IN IF variant = "mime" THEN AudioChunkMime(c0) ELSE AudioChunkGuarded(c0)
  /\ UNCHANGED <<variant, notServer>>

ServerStart(v) ==
  /\ variant = v
  /\ clientState = [audioBuffer |-> FALSE, sourceLanguage |-> "en",
                    targetLanguage |-> "es", isProcessing |-> FALSE]
  /\ calls = <<>>

(***************************************************************************)
(*            THE TRANSFER OF SYNTHESIZED AUDIO TO THE CLIENT              *)
(*                                                                         *)
(* protocol = "speechChunk" : generateSpeech of src/unnamed/part_005       *)
(*   (lines 537-618) and the speechStart, speechChunk and speechComplete   *)
(*   handlers of src/unnamed/part_001.                                     *)
(* protocol = "speechData"  : generateSpeech of src/unnamed/part_005       *)
(*   (lines 161-226) and handleSpeechData of src/unnamed/part_000.         *)
(*                                                                         *)
(* A buffer of n bytes is <<1, ..., n>>: every byte differs from the       *)
(* others, so a chunk that is lost, repeated or out of place shows.  The   *)
(* metadata message is delivered first; the chunk messages and the         *)
(* completion signal are delivered in any order.                           *)
(***************************************************************************)
Protocols == {"speechChunk", "speechData"}

AudioBuffer(n) == [i \in 1..n |-> i]

Min(a, b) == IF a < b THEN a ELSE b

Ceil(a, b) == (a + b - 1) \div b

\* buffer.slice(start, end), with offsets counted from 0
Slice(buf, start, end) == SubSeq(buf, start + 1, end)

Msg(type, totalChunks, chunkIndex, chunk, last) ==
  [type |-> type, totalChunks |-> totalChunks, chunkIndex |-> chunkIndex,
   chunk |-> chunk, last |-> last]

SpeechStart(buf) ==
  Msg("speechStart", Ceil(Len(buf), ChunkSize), 0, <<>>, FALSE)

Range(seq) == {seq[k] : k \in 1..Len(seq)}

IsLastChunk_Strict(buf, i) == i + ChunkSize > Len(buf)

\* const isLastChunk = i + CHUNK_SIZE >= buffer.length
IsLastChunk(buf, i) == i + ChunkSize >= Len(buf)

\* the speechChunk event of the iteration at offset i
SpeechChunk(buf, i) ==
  Msg("speechChunk", 0, i \div ChunkSize,
      Slice(buf, i, Min(i + ChunkSize, Len(buf))), IsLastChunk(buf, i))

\* for (let i = 0; i < buffer.length; i += CHUNK_SIZE): the events it
\* emits from offset i on, in the order of emission
RECURSIVE ChunkLoop(_, _)
ChunkLoop(buf, i) ==
  IF i < Len(buf)
  THEN <<SpeechChunk(buf, i)>> \o ChunkLoop(buf, i + ChunkSize)
  ELSE <<>>

SpeechChunks(buf) == Range(ChunkLoop(buf, 0))

LastChunkSent(buf) == \E m \in SpeechChunks(buf) : m.last

SpeechComplete == Msg("speechComplete", 0, 0, <<>>, FALSE)

SpeechMetadata == Msg("metadata", 1, 0, <<>>, FALSE)

\* the speechData event of iteration i
SpeechDatum(buf, i) ==
  LET totalChunks == Ceil(Len(buf), ChunkSize) IN
  Msg("speechData", 0, i,
      Slice(buf, i * ChunkSize, Min(i * ChunkSize + ChunkSize, Len(buf))),
      i = totalChunks - 1)

\* for (let i = 0; i < totalChunks; i++): the events it emits from
\* iteration i on, in the order of emission
RECURSIVE DataLoop(_, _)
DataLoop(buf, i) ==
  IF i < Ceil(Len(buf), ChunkSize)
  THEN <<SpeechDatum(buf, i)>> \o DataLoop(buf, i + 1)
  ELSE <<>>

SpeechData(buf) == Range(DataLoop(buf, 0))

SpeechTransfer_ChunksFirst(p, buf) ==
  IF p = "speechChunk"
  THEN ChunkLoop(buf, 0) \o <<SpeechStart(buf)>>
       \o (IF LastChunkSent(buf) THEN <<>> ELSE <<SpeechComplete>>)
  ELSE DataLoop(buf, 0) \o <<SpeechMetadata>>

\* everything one run of generateSpeech emits, in the order of emission
SpeechTransfer(p, buf) ==
  IF p = "speechChunk"
  THEN <<SpeechStart(buf)>> \o ChunkLoop(buf, 0)
       \o (IF LastChunkSent(buf) THEN <<>> ELSE <<SpeechComplete>>)
  ELSE <<SpeechMetadata>> \o DataLoop(buf, 0)

NoMetadata == [set |-> FALSE, totalChunks |-> 0]

Metadata(m) == [set |-> TRUE, totalChunks |-> m.totalChunks]

EmptyMap == <<>>

MapSet(map, index, chunk) == (index :> chunk) @@ map

NoSignals == [last |-> FALSE, complete |-> FALSE, extra |-> FALSE]

\* what the client tells about the audio: the last console.error of the
\* finalization, the last setStatus, and whether an object URL was made
NoFeedback == [console |-> "", status |-> "", url |-> FALSE]

\* The server synthesizes a buffer and emits the messages of its transfer.
GenerateSpeech(n) ==
  /\ transfers < MaxTransfers
  /\ wire = {}
  /\ transfers' = transfers + 1
  /\ buffer' = AudioBuffer(n)
  /\ sent' = SpeechTransfer(protocol, buffer')
  /\ wire' = Range(sent')
  /\ played' = <<>>
  /\ signals' = NoSignals
  /\ feedback' = NoFeedback
  /\ UNCHANGED notAudio
  /\ UNCHANGED <<protocol, audioMetadataRef, audioChunksMapRef, hasFinalized>>

\* A speechComplete event reaches the client although the transfer has a
\* chunk with isLastChunk: the case the client's handlers provide for.
SpeechCompleteBesidesLast ==
  /\ protocol = "speechChunk"
  /\ transfers > 0
  /\ LastChunkSent(buffer)
  /\ ~signals.extra
  /\ wire' = wire \cup {SpeechComplete}
  /\ signals' = [signals EXCEPT !.extra = TRUE]
  /\ UNCHANGED notAudio
  /\ UNCHANGED <<protocol, buffer, transfers, audioMetadataRef,
                 audioChunksMapRef, hasFinalized, played, sent, feedback>>

Deliverable(m) ==
  /\ m \in wire
  /\ m.type \in {"speechStart", "metadata"}
       \/ ~\E h \in wire : h.type \in {"speechStart", "metadata"}

OrderedChunks_StopAtGap(map, i, totalChunks) ==
  LET gaps == {j \in i..(totalChunks - 1) : j \notin DOMAIN map}
      end == IF gaps = {} THEN totalChunks
             ELSE CHOOSE g \in gaps : \A h \in gaps : g <= h
  IN [k \in 1..(end - i) |-> map[i + k - 1]]

\* for (let i = 0; i < totalChunks; i++): the chunks present, by index
RECURSIVE OrderedChunks(_, _, _)
OrderedChunks(map, i, totalChunks) ==
  IF i >= totalChunks THEN <<>>
  ELSE IF i \in DOMAIN map
       THEN <<map[i]>> \o OrderedChunks(map, i + 1, totalChunks)
       ELSE OrderedChunks(map, i + 1, totalChunks)

RECURSIVE Blob(_)
Blob(chunks) ==
  IF chunks = <<>> THEN <<>> ELSE Head(chunks) \o Blob(Tail(chunks))

\* finalizeAudio of the streaming client, given the chunk map it reads
FinalizeAudio(map) ==
  IF ~audioMetadataRef.set THEN UNCHANGED <<hasFinalized, played, feedback>>
  ELSE IF hasFinalized THEN UNCHANGED <<hasFinalized, played, feedback>>
  ELSE /\ hasFinalized' = TRUE
       /\ LET orderedChunks ==
                OrderedChunks(map, 0, audioMetadataRef.totalChunks)
          IN IF Len(orderedChunks) = 0
             THEN /\ feedback' = [feedback EXCEPT
                                    !.console = "No audio chunks to play"]
                  /\ UNCHANGED played
             ELSE /\ played' = Append(played, Blob(orderedChunks))
                  /\ feedback' = [feedback EXCEPT !.url = TRUE]

\* socket.on('speechStart', (data) => ...)
SpeechStartHandler(m) ==
  /\ audioMetadataRef' = Metadata(m)
  /\ audioChunksMapRef' = EmptyMap
  /\ hasFinalized' = FALSE
  /\ UNCHANGED <<played, feedback>>

OnSpeechStart(m) ==
  /\ Deliverable(m) /\ m.type = "speechStart"
  /\ wire' = wire \ {m}
  /\ SpeechStartHandler(m)
  /\ UNCHANGED notAudio
  /\ UNCHANGED <<protocol, buffer, transfers, signals, sent>>

\* socket.on('speechChunk', (data) => ...)
SpeechChunkHandler(m) ==
  /\ audioChunksMapRef' = MapSet(audioChunksMapRef, m.chunkIndex, m.chunk)
  /\ IF m.last /\ ~hasFinalized
     THEN FinalizeAudio(audioChunksMapRef')
     ELSE UNCHANGED <<hasFinalized, played, feedback>>
  /\ UNCHANGED audioMetadataRef

OnSpeechChunk(m) ==
  /\ Deliverable(m) /\ m.type = "speechChunk"
  /\ wire' = wire \ {m}
  /\ SpeechChunkHandler(m)
  /\ signals' = [signals EXCEPT !.last = @ \/ m.last]
  /\ UNCHANGED notAudio
  /\ UNCHANGED <<protocol, buffer, transfers, sent>>

\* socket.on('speechComplete', () => ...)
SpeechCompleteHandler ==
  /\ IF ~hasFinalized
     THEN FinalizeAudio(audioChunksMapRef)
     ELSE UNCHANGED <<hasFinalized, played, feedback>>
  /\ UNCHANGED <<audioMetadataRef, audioChunksMapRef>>

OnSpeechComplete(m) ==
  /\ Deliverable(m) /\ m.type = "speechComplete"
  /\ wire' = wire \ {m}
  /\ SpeechCompleteHandler
  /\ signals' = [signals EXCEPT !.complete = TRUE]
  /\ UNCHANGED notAudio
  /\ UNCHANGED <<protocol, buffer, transfers, sent>>

RECURSIVE CombinedArray(_)
CombinedArray(map) ==
  IF DOMAIN map = {} THEN <<>>
  ELSE LET index == CHOOSE i \in DOMAIN map : \A j \in DOMAIN map : i <= j
       IN map[index]
          \o CombinedArray([j \in DOMAIN map \ {index} |-> map[j]])

\* createAudioFromChunks of the speechData client, given the chunk map
CreateAudioFromChunks(map) ==
  IF DOMAIN map = {}
  THEN /\ audioChunksMapRef' = map
       /\ feedback' = [feedback EXCEPT
                         !.console = "No audio chunks received",
                         !.status = "Error: No audio data received"]
       /\ UNCHANGED played
  ELSE /\ played' = Append(played, CombinedArray(map))
       /\ feedback' = [feedback EXCEPT !.status = "Ready to play",
                                       !.url = TRUE]
       /\ audioChunksMapRef' = EmptyMap

\* the speechData listener and handleSpeechData
HandleSpeechData(m) ==
  /\ IF m.type = "metadata"
     THEN /\ audioMetadataRef' = Metadata(m)
          /\ UNCHANGED <<audioChunksMapRef, played, feedback>>
     ELSE /\ LET map == MapSet(audioChunksMapRef, m.chunkIndex, m.chunk)
             IN IF m.last
                THEN CreateAudioFromChunks(map)
                ELSE /\ audioChunksMapRef' = map
                     /\ UNCHANGED <<played, feedback>>
          /\ UNCHANGED audioMetadataRef
  /\ UNCHANGED hasFinalized

OnSpeechData(m) ==
  /\ Deliverable(m) /\ m.type \in {"metadata", "speechData"}
  /\ wire' = wire \ {m}
  /\ HandleSpeechData(m)
  /\ signals' = IF m.type = "metadata" THEN signals
                ELSE [signals EXCEPT !.last = @ \/ m.last]
  /\ UNCHANGED notAudio
  /\ UNCHANGED <<protocol, buffer, transfers, sent>>

AudioStart(p) ==
  /\ protocol = p
  /\ buffer = <<>>
  /\ transfers = 0
  /\ wire = {}
  /\ audioMetadataRef = NoMetadata
  /\ audioChunksMapRef = EmptyMap
  /\ hasFinalized = FALSE
  /\ played = <<>>
  /\ signals = NoSignals
  /\ sent = <<>>
  /\ feedback = NoFeedback

(***************************************************************************)
(*                 THE SILENCE DETECTOR OF THE CLIENT                      *)
(*                                                                         *)
(* src/unnamed/part_001: toggleListening, stopListening, stopRecording,    *)
(* the recording effect and setupSilenceDetection / checkSilence.          *)
(*                                                                         *)
(* detectSilence (lines 431-469) is started by setupAudioAnalyzer from the *)
(* render in which isListening is false; it reads that value in its first  *)
(* animation frame and returns at line 432 without sampling, so the timeout*)
(* it would arm (silenceTimeoutRef) never exists and has no action here.   *)
(* checkSilence and stopRecording belong to the render in which            *)
(* isRecording is true.  Time advances when a checkSilence timer fires.    *)
(***************************************************************************)
Energies == {SILENCE_THRESHOLD - 1, SILENCE_THRESHOLD}

FrameEnergies == {FRAME_SILENCE_THRESHOLD - 1, FRAME_SILENCE_THRESHOLD}

\* a timer fires on time or half an interval late
Lateness == {0, POLL_INTERVAL \div 2}

SourceLanguages == {"en", "es"}

NoTime == [set |-> FALSE, at |-> 0]

At(t) == [set |-> TRUE, at |-> t]

NoRun == [set |-> FALSE, start |-> 0, last |-> 0, stops |-> 0,
          short |-> FALSE]

\* the detector of one run of the recording effect, with the effect's
\* dependencies at that run
Detector(active, deps) ==
  [active |-> active, deps |-> deps, silenceStart |-> NoTime,
   silenceTimer |-> FALSE]

\* the dependencies of the recording effect that change in this model
EffectDeps(c) ==
  [isRecording |-> c.isRecording, sourceLanguage |-> c.sourceLanguage]

IsSilent_Inclusive(e) == e <= SILENCE_THRESHOLD

\* if (average < SILENCE_THRESHOLD)
IsSilent(e) == e < SILENCE_THRESHOLD

\* the samples of a run, as the recording sees them
Sampled(r, e, stopped) ==
  IF capture.recorder # "recording" THEN r
  ELSE IF e < SILENCE_THRESHOLD
       THEN [set |-> TRUE,
             start |-> IF r.set THEN r.start ELSE now',
             last |-> now',
             stops |-> (IF r.set THEN r.stops ELSE 0)
                       + (IF stopped THEN 1 ELSE 0),
             short |-> r.short]
       ELSE [NoRun EXCEPT
               !.short = r.short \/ (r.set /\ r.start < r.last
                                          /\ r.stops = 0)]

\* stopRecording, called by checkSilence (its isRecording is true)
StopRecording(c) ==
  IF c.recorder = "recording"
  THEN [c EXCEPT !.recorder = "inactive", !.isRecording = FALSE,
                 !.autoStops = @ + 1]
  ELSE [c EXCEPT !.autoStops = @ + 1]

AfterAutoStop_StillArmed(d) == [d EXCEPT !.silenceTimer = TRUE]

\* stopRecording(); silenceStart = null; return;  (no new timer)
AfterAutoStop(d) == [d EXCEPT !.silenceStart = NoTime, !.silenceTimer = FALSE]

SilenceAfterSound_Kept(d) == d.silenceStart
SilenceAfterSound(d) == NoTime

\* checkSilence of detector d on a sample of energy e, at time now'
CheckSilence(d, r, e) ==
  IF IsSilent(e)
  THEN IF ~d.silenceStart.set
       THEN /\ detector' = [d EXCEPT !.silenceStart = At(now'),
                                     !.silenceTimer = TRUE]
            /\ capture' = capture
            /\ run' = Sampled(r, e, FALSE)
       ELSE IF now' - d.silenceStart.at > SILENCE_DURATION
       THEN /\ detector' = AfterAutoStop(d)
            /\ capture' = StopRecording(capture)
            /\ run' = Sampled(r, e, capture.recorder = "recording")
       ELSE /\ detector' = [d EXCEPT !.silenceTimer = TRUE]
            /\ capture' = capture
            /\ run' = Sampled(r, e, FALSE)
  ELSE /\ detector' = [d EXCEPT !.silenceStart = SilenceAfterSound(d),
                                !.silenceTimer = TRUE]
       /\ capture' = capture
       /\ run' = Sampled(r, e, FALSE)

\* stopListening when the recorder is not in the 'recording' state: a
\* warning and setIsListening(false)
StopListeningInactive(c) == [c EXCEPT !.isListening = FALSE]

\* what the timeout of stopListening does after mediaRecorderRef.current.stop():
\* the state setters, the tracks of the stream, the audio context
ReleaseCapture(c) ==
  [c EXCEPT !.isListening = FALSE, !.isRecording = FALSE,
            !.tracksLive = FALSE, !.contextOpen = FALSE]

\* toggleListening: stopListening when listening, else getUserMedia,
\* setupAudioAnalyzer and a recording
ToggleListening ==
  /\ detector.deps = EffectDeps(capture)
  /\ ~capture.framePending
  /\ IF capture.isListening
     THEN /\ IF capture.recorder = "recording"
             THEN capture' = [capture EXCEPT !.flushRequested = TRUE,
                                            !.stopPending = TRUE,
                                            !.stopAt = now]
             ELSE capture' = StopListeningInactive(capture)
          /\ run' = run
     ELSE /\ capture.captures < MaxCaptures
          /\ capture' = [capture EXCEPT !.recorder = "recording",
                                        !.isListening = TRUE,
                                        !.isRecording = TRUE,
                                        !.tracksLive = TRUE,
                                        !.contextOpen = TRUE,
                                        !.flushRequested = FALSE,
                                        !.framePending = TRUE,
                                        !.frameIsListening = capture.isListening,
                                        !.autoStops = 0,
                                        !.captures = @ + 1]
          /\ run' = NoRun
  /\ UNCHANGED <<now, detector>>
  /\ UNCHANGED notSilence

\* the timeout of stopListening.  On a recorder that is already inactive
\* stop() throws in some browsers, and the rest of the callback is skipped,
\* and does nothing in others.
StopListeningTimeout(throws) ==
  /\ capture.stopPending
  /\ IF capture.recorder = "recording" \/ ~throws
     THEN capture' = ReleaseCapture([capture EXCEPT !.stopPending = FALSE,
                                                    !.stopAt = 0,
                                                    !.silenceTimeout = FALSE,
                                                    !.recorder = "inactive"])
     ELSE capture' = [capture EXCEPT !.stopPending = FALSE, !.stopAt = 0]
  /\ UNCHANGED <<now, detector, run>>
  /\ UNCHANGED notSilence

\* detectSilence in an animation frame, with the isListening of the render
\* whose toggleListening called setupAudioAnalyzer; e is the average level
DetectSilence(e) ==
  /\ capture.framePending
  /\ IF ~capture.contextOpen \/ ~capture.frameIsListening
     THEN capture' = [capture EXCEPT !.framePending = FALSE]
     ELSE capture' = [capture EXCEPT
                        !.silenceTimeout = (e < FRAME_SILENCE_THRESHOLD)]
  /\ UNCHANGED <<now, detector, run>>
  /\ UNCHANGED notSilence

\* the user picks another source language
SetSourceLanguage(l) ==
  /\ l # capture.sourceLanguage
  /\ capture' = [capture EXCEPT !.sourceLanguage = l]
  /\ UNCHANGED <<now, detector, run>>
  /\ UNCHANGED notSilence

\* the recording effect runs after a render that changed its dependencies:
\* the cleanup of the previous run, then setupSilenceDetection and its
\* first checkSilence when isRecording
RecordingEffect(e) ==
  /\ detector.deps # EffectDeps(capture)
  /\ now' = now
  /\ IF capture.isRecording
     THEN CheckSilence(Detector(TRUE, EffectDeps(capture)), NoRun, e)
     ELSE /\ detector' = Detector(FALSE, EffectDeps(capture))
          /\ UNCHANGED <<capture, run>>
  /\ UNCHANGED notSilence

\* the timer of checkSilence fires.  It is due at most POLL_INTERVAL after
\* a click on the microphone button, so once in the delay of stopListening.
SilenceTimer(e, late) ==
  /\ detector.active
  /\ detector.silenceTimer
  /\ capture.stopPending => now < capture.stopAt + STOP_DELAY
  /\ ~capture.framePending
  /\ now + POLL_INTERVAL + late <= MaxTime
  /\ now' = now + POLL_INTERVAL + late
  /\ CheckSilence(detector, run, e)
  /\ UNCHANGED notSilence

SilenceStart ==
  /\ now = 0
  /\ capture = [isListening |-> FALSE, isRecording |-> FALSE,
                recorder |-> "inactive", stopPending |-> FALSE, stopAt |-> 0,
                framePending |-> FALSE, frameIsListening |-> FALSE,
                silenceTimeout |-> FALSE, autoStops |-> 0,
                sourceLanguage |-> "en", captures |-> 0,
                tracksLive |-> FALSE, contextOpen |-> FALSE,
                flushRequested |-> FALSE]
  /\ detector = Detector(FALSE, [isRecording |-> FALSE,
                                 sourceLanguage |-> "en"])
  /\ run = NoRun


(***************************************************************************)
(*              THE TURN-TAKING CONTROLLER OF THE CLIENT                   *)
(*                                                                         *)
(* src/unnamed/part_000 (second file, lines 719-1393): playAudio, the      *)
(* audio element's onEnded = handleAudioEnd, its two timeouts, and         *)
(* startListening.  A timeout runs at the first tick at or after its due   *)
(* time, the earliest first.                                               *)
(***************************************************************************)
Languages == {"en", "es", "fr"}

NoText == <<>>

Timer(id, due, kind, previousSource, previousTarget) ==
  [id |-> id, due |-> due, kind |-> kind,
   previousSource |-> previousSource, previousTarget |-> previousTarget]

NoTurnLog ==
  [ended |-> 0, early |-> FALSE, swaps |-> 0, starts |-> 0,
   a |-> "", b |-> "", swapAt |-> 0]

\* the timeout that runs next
NextTimer(t) ==
  /\ t \in timers
  /\ t.due <= clock
  /\ \A u \in timers : u.due > t.due \/ (u.due = t.due /\ u.id >= t.id)

\* createAudioFromChunks / playAudio: a translation starts to play
PlayAudio ==
  /\ turn.playbacks < MaxPlaybacks
  /\ ~turn.isPlaying
  /\ timers = {}
  /\ turn.micPending = 0
  /\ turn' = [turn EXCEPT !.isPlaying = TRUE, !.isListening = FALSE,
                          !.status = "Ready to play",
                          !.transcription = <<"hi">>,
                          !.translation = <<"hola">>,
                          !.playbacks = @ + 1]
  /\ turnLog' = NoTurnLog
  /\ UNCHANGED <<clock, timers>>
  /\ UNCHANGED notTurn

\* handleAudioEnd: the handler of the render current at the event, which
\* holds that render's sourceLanguage and targetLanguage
HandleAudioEnd ==
  /\ turn.playbacks > 0
  /\ turnLog.ended < MaxEnded
  /\ turn.isPlaying \/ turnLog.ended > 0
  /\ turn' = [turn EXCEPT !.isPlaying = FALSE, !.timeouts = @ + 1,
                          !.status = "Swapping languages for next speaker..."]
  /\ timers' = timers \cup
       {Timer(turn.timeouts + 1, clock + SWAP_DELAY, "swap",
              turn.sourceLanguage, turn.targetLanguage)}
  /\ turnLog' = [turnLog EXCEPT
                   !.ended = @ + 1,
                   !.early = @ \/ (turnLog.ended = 1 /\ turnLog.starts = 0),
                   !.a = IF turnLog.ended = 0 THEN turn.sourceLanguage
                         ELSE @,
                   !.b = IF turnLog.ended = 0 THEN turn.targetLanguage
                         ELSE @]
  /\ UNCHANGED clock
  /\ UNCHANGED notTurn

SetSwapped_SourceOnly(t, previousSource, previousTarget) ==
  [t EXCEPT !.sourceLanguage = previousTarget]
SetSwapped(t, previousSource, previousTarget) ==
  [t EXCEPT !.sourceLanguage = previousTarget,
            !.targetLanguage = previousSource]

\* the first timeout of handleAudioEnd: swap, clear, schedule the restart
SwapTimeout(t) ==
  /\ NextTimer(t) /\ t.kind = "swap"
  /\ turn' = [SetSwapped(turn, t.previousSource, t.previousTarget)
                EXCEPT !.transcription = NoText, !.translation = NoText,
                       !.timeouts = @ + 1]
  /\ timers' = (timers \ {t}) \cup
       {Timer(turn.timeouts + 1, clock + SETTLE_DELAY, "start",
              t.previousSource, t.previousTarget)}
  /\ turnLog' = [turnLog EXCEPT !.swaps = @ + 1, !.swapAt = clock]
  /\ UNCHANGED clock
  /\ UNCHANGED notTurn

\* the second timeout: startListening, up to its await of getUserMedia
StartTimeout(t) ==
  /\ NextTimer(t) /\ t.kind = "start"
  /\ turn' = [turn EXCEPT !.transcription = NoText, !.translation = NoText,
                          !.status = "Requesting microphone access...",
                          !.micPending = @ + 1]
  /\ timers' = timers \ {t}
  /\ turnLog' = [turnLog EXCEPT !.starts = @ + 1]
  /\ UNCHANGED clock
  /\ UNCHANGED notTurn

\* A catch block that asks for the microphone again.
StartFailed_Retry(t) == [t EXCEPT !.status = "Error"]

\* catch (error) { console.error(...); setStatus(`Error: ...`); }
StartFailed(t) == [t EXCEPT !.status = "Error", !.micPending = @ - 1]

\* getUserMedia returns: the recorder starts, or the catch sets a status
GetUserMediaReturn(ok) ==
  /\ turn.micPending > 0
  /\ turn' = IF ok
             THEN [turn EXCEPT !.micPending = @ - 1, !.isListening = TRUE,
                               !.status = "Listening... (speak now)"]
             ELSE StartFailed(turn)
  /\ UNCHANGED <<clock, timers, turnLog>>
  /\ UNCHANGED notTurn

Tick ==
  /\ clock + TickMs <= MaxClock
  /\ ~\E t \in timers : t.due <= clock
  /\ clock' = clock + TickMs
  /\ UNCHANGED <<turn, timers, turnLog>>
  /\ UNCHANGED notTurn

TurnStart(source, target) ==
  /\ clock = 0
  /\ turn = [sourceLanguage |-> source, targetLanguage |-> target,
             transcription |-> NoText, translation |-> NoText,
             isPlaying |-> FALSE, isListening |-> FALSE, status |-> "",
             micPending |-> 0, timeouts |-> 0, playbacks |-> 0]
  /\ timers = {}
  /\ turnLog = NoTurnLog

(***************************************************************************)
(*           THE CLIENT'S HANDLING OF THE TRANSLATION STREAM               *)
(*                                                                         *)
(* stream.client = "streaming" : src/unnamed/part_001, the translationStream*)
(*   handler (lines 156-185) and textToSpeech (lines 58-109).              *)
(* stream.client = "turn"      : src/unnamed/part_000, the translationStream*)
(*   handler (lines 789-803), generateSpeech and sendSpeechRequest         *)
(*   (lines 941-993).                                                      *)
(*                                                                         *)
(* The events are those of one utterance.  The server of part_005 sends    *)
(* two final events for an utterance in its normal course: one from the    *)
(* translation its audio handler runs itself (lines 455-460, 643-648), one *)
(* from the startTranslation the client emits on the final transcription   *)
(* (part_001:130, part_005:500-519).  A text is a sequence of characters.  *)
(***************************************************************************)
StreamClients == {"streaming", "turn"}

StreamTexts == {<<>>, <<"s">>, <<"s", "i">>}

StreamData == [text : StreamTexts, partial : BOOLEAN]

\* textToSpeech, from the handler: what it leaves in the refs and whether
\* it schedules the emit
TextToSpeech(text) ==
  IF text = <<>> \/ Len(Trim(text)) < MIN_SPEECH_CHARS \/ ~stream.connected
  THEN /\ hasFinalized' = TRUE
       /\ UNCHANGED <<audioMetadataRef, audioChunksMapRef>>
       /\ stream' = [stream EXCEPT !.translation = text,
                                   !.events = @ + 1, !.finals = @ + 1]
  ELSE /\ audioChunksMapRef' = EmptyMap
       /\ audioMetadataRef' = NoMetadata
       /\ hasFinalized' = FALSE
       /\ stream' = [stream EXCEPT
                       !.translation = text,
                       !.events = @ + 1, !.finals = @ + 1,
                       !.timeouts = Append(@, [kind |-> "emit",
                                               text |-> text])]

\* socket.on('translationStream', ...) of part_001
TranslationStreamStreaming(data) ==
  IF data.text = <<>>
  THEN /\ stream' = [stream EXCEPT
                       !.events = @ + 1,
                       !.finals = @ + (IF data.partial THEN 0 ELSE 1)]
       /\ UNCHANGED <<hasFinalized, audioMetadataRef, audioChunksMapRef>>
  ELSE IF ~data.partial /\ ~hasFinalized
       THEN TextToSpeech(data.text)
       ELSE /\ stream' = [stream EXCEPT
                            !.translation = data.text,
                            !.events = @ + 1,
                            !.finals = @ + (IF data.partial THEN 0 ELSE 1)]
            /\ UNCHANGED <<hasFinalized, audioMetadataRef,
                           audioChunksMapRef>>

\* socket.on('translationStream', ...) and generateSpeech of part_000
TranslationStreamTurn(data) ==
  /\ stream' = [stream EXCEPT
                  !.translation = IF data.text = <<>> THEN @ ELSE data.text,
                  !.events = @ + 1,
                  !.finals = @ + (IF data.partial THEN 0 ELSE 1),
                  !.timeouts = IF data.text # <<>> /\ ~data.partial
                               THEN Append(@, [kind |-> "check",
                                               text |-> data.text])
                               ELSE @]
  /\ UNCHANGED <<hasFinalized, audioMetadataRef, audioChunksMapRef>>

TranslationStream(data) ==
  /\ stream.events < MaxStreamEvents
  /\ IF stream.client = "streaming"
     THEN TranslationStreamStreaming(data)
     ELSE TranslationStreamTurn(data)
  /\ UNCHANGED notStream

Remove(seq, i) == SubSeq(seq, 1, i - 1) \o SubSeq(seq, i + 1, Len(seq))

\* a timeout of textToSpeech, generateSpeech or its retry fires; the one
\* of textToSpeech tests the socketConnected it was created with, true
SpeechTimeout(i) ==
  /\ i \in 1..Len(stream.timeouts)
  /\ LET t == stream.timeouts[i]
         rest == Remove(stream.timeouts, i)
     IN IF stream.connected \/ t.kind = "emit"
        THEN stream' = [stream EXCEPT !.timeouts = rest,
                                      !.requests = Append(@, t.text)]
        ELSE IF t.kind = "check"
        THEN stream' = [stream EXCEPT
                          !.timeouts = Append(rest, [kind |-> "retry",
                                                     text |-> t.text])]
        ELSE stream' = [stream EXCEPT !.timeouts = rest]
  /\ UNCHANGED <<hasFinalized, audioMetadataRef, audioChunksMapRef>>
  /\ UNCHANGED notStream

\* the socket connects or disconnects
SocketChange ==
  /\ stream' = [stream EXCEPT !.connected = ~@]
  /\ UNCHANGED <<hasFinalized, audioMetadataRef, audioChunksMapRef>>
  /\ UNCHANGED notStream

StreamStart(client) ==
  stream = [client |-> client, connected |-> TRUE, translation |-> <<>>,
            events |-> 0, finals |-> 0, timeouts |-> <<>>,
            requests |-> <<>>]

(***************************************************************************)
(*               THE CLIENT'S END OF THE SESSION                           *)
(*                                                                         *)
(* The socket listeners of src/unnamed/part_001 (lines 115-185), which     *)
(* talk to the server file that keeps isProcessing, and those of           *)
(* src/unnamed/part_000 (lines 771-803), which talk to the mime-aware      *)
(* server file.  The client handles the events of the session in the order *)
(* in which the server emitted them.  What a listener emits is modelled;   *)
(* the speech request that follows a final translation is sent after       *)
(* timeouts that may drop it (a duplicate text, a lost connection), so it  *)
(* is a choice here.                                                       *)
(***************************************************************************)
AllEmitted ==
  UNION {{calls[i].emitted[k] : k \in 1..Len(calls[i].emitted)} :
           i \in 1..Len(calls)}

\* The event the client handles next.
Arrived == link.seen < EmitCount

NextEvent == CHOOSE e \in AllEmitted : e.at = link.seen + 1

Send(l, request) == [l EXCEPT !.sent = Append(@, request)]

\* if (data.text) ... if (data.final && data.text.trim() && socket)
WantsTranslation(data) ==
  data.text # <<>> /\ data.final /\ Trim(data.text) # <<>>

\* A client that asks for speech on every translationStream event with a text.
WantsSpeech_Partial(data) == data.text # <<>>

\* if (data.translatedText) ... if (!data.partial ...)
WantsSpeech(data) == data.text # <<>> /\ data.final

\* socket.on('transcription', (data) => ...)
OnTranscription ==
  /\ Arrived
  /\ NextEvent.event = "transcription"
  /\ LET l == [link EXCEPT !.seen = @ + 1] IN
     link' = IF WantsTranslation(NextEvent)
             THEN Send(l, Request("startTranslation", NextEvent.text))
             ELSE l
  /\ UNCHANGED <<serverVars, notLink>>

\* socket.on('translation', ...) and socket.on('translationStream', ...)
OnTranslation(speak) ==
  /\ Arrived
  /\ NextEvent.event \in {"translation", "translationStream"}
  /\ LET l == [link EXCEPT !.seen = @ + 1] IN
     link' = IF WantsSpeech(NextEvent) /\ speak
             THEN Send(l, Request("generateSpeech", NextEvent.text))
             ELSE l
  /\ UNCHANGED <<serverVars, notLink>>

\* socket.on('error', ...) and the speech listeners emit nothing
OnOther ==
  /\ Arrived
  /\ NextEvent.event \notin {"transcription", "translation", "translationStream"}
  /\ link' = [link EXCEPT !.seen = @ + 1]
  /\ UNCHANGED <<serverVars, notLink>>

LinkStart(attached) ==
  link = [attached |-> attached, seen |-> 0, taken |-> 0, sent |-> <<>>]

(***************************************************************************)
(*                 SEVERAL SOCKETS ON ONE SERVER                           *)
(*                                                                         *)
(* ioServer = "handlers" : setupSocketHandlers of src/server/handlers.js;  *)
(*   every connection has its own clientState and the handlers answer with *)
(*   socket.emit.                                                          *)
(* ioServer = "route"    : the connection handler of                       *)
(*   src/src/app/api/socket/route.ts, which answers with io.emit and       *)
(*   socket.broadcast.emit.                                                *)
(*                                                                         *)
(* A message a socket received records the socket whose event caused it.   *)
(***************************************************************************)
IoServers == {"handlers", "route"}

Sockets == 1..MaxSockets

Message(name, cause) == [event |-> name, cause |-> cause]

\* socket.emit(name, ...) in a handler of socket s
SocketEmit(ss, s, name) ==
  [ss EXCEPT ![s].inbox = @ \cup {Message(name, s)}]

\* io.emit(name, ...) in a handler of socket s: every connected socket
IoEmit(ss, s, name) ==
  [t \in Sockets |-> [ss[t] EXCEPT !.inbox = @ \cup {Message(name, s)}]]

\* socket.broadcast.emit(name, ...): every connected socket but s
BroadcastEmit(ss, s, name) ==
  [t \in Sockets |->
     IF t = s THEN ss[t] ELSE [ss[t] EXCEPT !.inbox = @ \cup {Message(name, s)}]]

NoPair == <<>>

\* the languages of the session: clientState.sourceLanguage, clientState.targetLanguage
LanguagePair(cs) == <<cs.sourceLanguage, cs.targetLanguage>>

\* The client's message that follows the audioChunk on the connection: the
\* recorder's onstop of part_000:321-327 emits endAudioStream right after
\* audioChunk; part_000:528 and part_001:832 emit audioChunk alone.
\* cycles counts the cycles the server has started for this utterance.
Followed(ss, s, ends, cycles) ==
  [ss EXCEPT ![s].stream = IF ends THEN "pending" ELSE "none",
             ![s].cycles = cycles]

\* socket.on('audioChunk', ...) of socket s, up to its first await: the call
\* transcribeAudio(audioBuffer, clientState.sourceLanguage) is made with the
\* language the session holds now
SocketAudioChunk(s, p, ends) ==
  /\ UNCHANGED <<ioServer, notSockets>>
  /\ sockets[s].stream # "pending"
  /\ IF ioServer = "route"
     THEN sockets' = Followed(IoEmit(sockets, s, "transcription"), s, ends, 0)
     ELSE IF TooSmall(p) \/ Busy(sockets[s].clientState)
     THEN sockets' = Followed(SocketEmit(sockets, s, "error"), s, ends, 0)
     ELSE sockets' = Followed([sockets EXCEPT
                                 ![s].clientState = BeginProcessing(@),
                                 ![s].pc = "transcribing",
                                 ![s].accepted = LanguagePair(sockets[s].clientState)],
                              s, ends, 1)

\* socket.on('endAudioStream', async () => ...) of socket s: the message is
\* handled before any later message of the socket.  route.ts registers no
\* handler for it.  processAudioFile makes the engine calls of a cycle.
SocketEndAudioStream(s) ==
  /\ UNCHANGED <<ioServer, notSockets>>
  /\ sockets[s].stream = "pending"
  /\ IF ioServer = "handlers" /\ HasAudioToProcess(sockets[s].clientState)
     THEN sockets' = [sockets EXCEPT
                        ![s].stream = "ended",
                        ![s].clientState = BeginProcessing(@),
                        ![s].pc = "transcribing",
                        ![s].accepted = LanguagePair(sockets[s].clientState),
                        ![s].cycles = @ + 1]
     ELSE sockets' = [sockets EXCEPT ![s].stream = "ended"]

\* the cycle of socket s is over
CycleEnd(ss, s) ==
  [ss EXCEPT ![s].clientState = Finally(@), ![s].pc = "idle",
             ![s].accepted = NoPair, ![s].translatedWith = NoPair]

\* translateText(transcription, clientState.sourceLanguage,
\*               clientState.targetLanguage): the arguments are read when the
\* call is made, after the transcription has returned
TranslateArgs(socket) == LanguagePair(socket.clientState)

\* the continuation of the cycle of socket s after  await transcribeAudio(...)
SocketTranscribeReturn(s, r) ==
  /\ sockets[s].pc = "transcribing"
  /\ UNCHANGED <<ioServer, notSockets>>
  /\ IF ~r.ok
     THEN sockets' = SocketEmit(CycleEnd(sockets, s), s, "error")
     ELSE IF IsBlank(r.text)
     THEN sockets' = SocketEmit(CycleEnd(sockets, s), s, "transcription")
     ELSE sockets' = SocketEmit([sockets EXCEPT
                                   ![s].pc = "translating",
                                   ![s].translatedWith = TranslateArgs(sockets[s])],
                                s, "transcription")

\* the continuation after  await translateText(...)
SocketTranslateReturn(s, ok) ==
  /\ sockets[s].pc = "translating"
  /\ UNCHANGED <<ioServer, notSockets>>
  /\ sockets' = SocketEmit(CycleEnd(sockets, s),
                           s, IF ok THEN "translation" ELSE "error")

\* socket.on('changeLanguage', (data) => ...) of socket s
SocketChangeLanguage(s, data) ==
  /\ UNCHANGED <<ioServer, notSockets>>
  /\ sockets[s].stream # "pending"
  /\ IF ioServer = "route"
     THEN sockets' = BroadcastEmit(sockets, s, "languageChanged")
     ELSE sockets' =
            [sockets EXCEPT
               ![s].clientState.sourceLanguage =
                  IF data.sourceLanguage = "" THEN "en" ELSE data.sourceLanguage,
               ![s].clientState.targetLanguage =
                  IF data.targetLanguage = "" THEN "es" ELSE data.targetLanguage]

SocketsStart(server) ==
  /\ ioServer = server
  /\ sockets =
       [s \in Sockets |->
          [clientState |-> [audioBuffer |-> FALSE, sourceLanguage |-> "en",
                            targetLanguage |-> "es", isProcessing |-> FALSE],
           pc |-> "idle",
           inbox |-> {},
           accepted |-> NoPair,
           translatedWith |-> NoPair,
           stream |-> "none",
           cycles |-> 0]]

(***************************************************************************)
(*                THE SYNTHESIS CYCLES OF ONE SESSION                      *)
(*                                                                         *)
(* The server emits the final translationStream event of a translation;    *)
(* on it the client asks for speech (the translationStream handler and     *)
(* textToSpeech of src/unnamed/part_001, the translationStream handler and *)
(* sendSpeechRequest of src/unnamed/part_000); every request starts a run  *)
(* of the server's generateSpeech handler (src/unnamed/part_005).  A run   *)
(* awaits the synthesis, then emits the metadata event and the first chunk *)
(* event, and pauses before every further event, so the runs of two        *)
(* requests interleave at their pauses.  The connection delivers the       *)
(* events in the order of emission.  The bytes of run k are k * Stride + 1,*)
(* k * Stride + 2, ...: every byte tells the run that synthesized it.      *)
(* Every translation has a text that can be spoken and the socket stays    *)
(* connected.                                                              *)
(***************************************************************************)
Stride == MaxSpeechBytes + 1

TransferBuffer(k, n) == [i \in 1..n |-> k * Stride + i]

TransferOf(byte) == byte \div Stride

SpeechRun(pc, buf, i) == [pc |-> pc, buf |-> buf, i |-> i]

TranslationStreamFinal == Msg("translationStream", 0, 0, <<>>, FALSE)

\* the server ends the stream of a translation:
\* socket.emit('translationStream', {..., partial: false})
TranslationFinal ==
  /\ finals < MaxRequests
  /\ finals' = finals + 1
  /\ channel' = Append(channel, TranslationStreamFinal)
  /\ UNCHANGED <<speech, audioMetadataRef, audioChunksMapRef, hasFinalized,
                 played, feedback, notCycles>>

\* socket.on('translationStream', ...) for a final event: the streaming
\* client tests the latch and calls textToSpeech, which resets the refs; the
\* other client calls generateSpeech.  The generateSpeech event they emit
\* starts a run of the server's handler.
ReceiveTranslationStream ==
  /\ channel # <<>>
  /\ Head(channel).type = "translationStream"
  /\ channel' = Tail(channel)
  /\ IF protocol = "speechChunk"
     THEN IF ~hasFinalized
          THEN /\ audioChunksMapRef' = EmptyMap
               /\ audioMetadataRef' = NoMetadata
               /\ hasFinalized' = FALSE
               /\ speech' = Append(speech, SpeechRun("synthesis", <<>>, 0))
          ELSE UNCHANGED <<audioChunksMapRef, audioMetadataRef, hasFinalized,
                           speech>>
     ELSE /\ speech' = Append(speech, SpeechRun("synthesis", <<>>, 0))
          /\ UNCHANGED <<audioChunksMapRef, audioMetadataRef, hasFinalized>>
  /\ UNCHANGED <<finals, played, feedback, notCycles>>

\* the streaming client starts a new recording: hasFinalized.current = false
RecordingStarts ==
  /\ protocol = "speechChunk"
  /\ hasFinalized' = FALSE
  /\ UNCHANGED <<cycleVars, audioMetadataRef, audioChunksMapRef, played,
                 feedback, notCycles>>

\* the synthesis throws: the catch block emits an error event
SynthesisFails(k) ==
  /\ speech[k].pc = "synthesis"
  /\ speech' = [speech EXCEPT ![k].pc = "done"]
  /\ UNCHANGED <<channel, finals, audioVars, notCycles>>

\* the synthesis returns n bytes: the handler emits the metadata event and
\* runs its loop up to the first pause
SynthesisReturns(k, n) ==
  /\ speech[k].pc = "synthesis"
  /\ LET buf == TransferBuffer(k, n) IN
     IF protocol = "speechChunk"
     THEN /\ channel' = channel \o <<SpeechStart(buf)>>
                        \o (IF 0 < Len(buf) THEN <<SpeechChunk(buf, 0)>>
                            ELSE <<>>)
          /\ speech' = [speech EXCEPT ![k] =
               SpeechRun(IF ~(0 < Len(buf)) THEN "complete"
                         ELSE IF IsLastChunk(buf, 0) THEN "done" ELSE "loop",
                         buf, ChunkSize)]
     ELSE /\ channel' = channel \o <<SpeechMetadata>>
                        \o (IF 0 < Ceil(Len(buf), ChunkSize)
                            THEN <<SpeechDatum(buf, 0)>> ELSE <<>>)
          /\ speech' = [speech EXCEPT ![k] =
               SpeechRun(IF 0 < Ceil(Len(buf), ChunkSize) - 1 THEN "loop"
                         ELSE "done", buf, 1)]
  /\ UNCHANGED <<finals, audioMetadataRef, audioChunksMapRef, hasFinalized,
                 played, feedback, notCycles>>

\* the pause of the loop ends: the next iteration emits its chunk event
NextIteration(k) ==
  /\ speech[k].pc = "loop"
  /\ LET buf == speech[k].buf
         i == speech[k].i
     IN IF protocol = "speechChunk"
        THEN /\ channel' = Append(channel, SpeechChunk(buf, i))
             /\ speech' = [speech EXCEPT
                  ![k].i = i + ChunkSize,
                  ![k].pc = IF IsLastChunk(buf, i) THEN "done" ELSE "loop"]
        ELSE /\ channel' = Append(channel, SpeechDatum(buf, i))
             /\ speech' = [speech EXCEPT
                  ![k].i = i + 1,
                  ![k].pc = IF i < Ceil(Len(buf), ChunkSize) - 1
                            THEN "loop" ELSE "done"]
  /\ UNCHANGED <<finals, audioMetadataRef, audioChunksMapRef, hasFinalized,
                 played, feedback, notCycles>>

\* if (!lastChunkSent) { await ... 50 ms; socket.emit('speechComplete') }
EmitSpeechComplete(k) ==
  /\ speech[k].pc = "complete"
  /\ channel' = Append(channel, SpeechComplete)
  /\ speech' = [speech EXCEPT ![k].pc = "done"]
  /\ UNCHANGED <<finals, audioMetadataRef, audioChunksMapRef, hasFinalized,
                 played, feedback, notCycles>>

\* the client handles the event that was emitted first
Receive(type) ==
  /\ channel # <<>>
  /\ Head(channel).type = type
  /\ channel' = Tail(channel)
  /\ UNCHANGED <<speech, finals, notCycles>>

ReceiveSpeechStart ==
  Receive("speechStart") /\ SpeechStartHandler(Head(channel))

ReceiveSpeechChunk ==
  Receive("speechChunk") /\ SpeechChunkHandler(Head(channel))

ReceiveSpeechComplete ==
  Receive("speechComplete") /\ SpeechCompleteHandler

ReceiveSpeechData ==
  /\ channel # <<>>
  /\ Head(channel).type \in {"metadata", "speechData"}
  /\ channel' = Tail(channel)
  /\ HandleSpeechData(Head(channel))
  /\ UNCHANGED <<speech, finals, notCycles>>

CyclesStart ==
  /\ speech = <<>>
  /\ channel = <<>>
  /\ finals = 0

(***************************************************************************)
(*                     THE CONNECTION PROVIDER                             *)
(*                                                                         *)
(* WebSocketProvider of src/src/components/WebSocketProvider.tsx (the same *)
(* handlers are in the provider at the end of src/unnamed/part_001): the   *)
(* connect, connect_error and disconnect listeners of the socket it        *)
(* creates, its forced reconnects and its reconnect function.              *)
(*                                                                         *)
(* conn.socket is the state of the socket: "opening" while an attempt to   *)
(* connect is under way, "connected", or "closed".  After a failed attempt *)
(* the socket's manager may try again by itself (reconnectionAttempts) or  *)
(* have given up; both are followed.  A forced reconnect runs some time    *)
(* after it was scheduled.  conn.errors counts the connect_error events    *)
(* since the last connect (history).                                       *)
(***************************************************************************)
SocketStates == {"opening", "connected", "closed"}

DisconnectReasons == {"io server disconnect", "transport close"}

\* A provider that retries once more than maxRetries.
CanRetry_Inclusive(retryCount) == retryCount <= maxRetries

\* if (retryCountRef.current < maxRetries)
CanRetry(retryCount) == retryCount < maxRetries

\* socketInstance.on('connect', ...): it ends by emitting a ping
OnConnect ==
  /\ conn.socket = "opening"
  /\ conn.pings < MaxConnects
  /\ conn' = [conn EXCEPT !.socket = "connected", !.connected = TRUE,
                          !.retryCount = 0, !.errors = 0, !.pings = @ + 1]
  /\ UNCHANGED notConnect

\* socketInstance.on('connect_error', ...); manager is what the socket's
\* manager does after the failed attempt
OnConnectError(manager) ==
  /\ conn.socket = "opening"
  /\ manager \in {"opening", "closed"}
  /\ conn.errors < MaxConnectErrors
  /\ CanRetry(conn.retryCount) => conn.timers < MaxPendingTimers
  /\ conn' = IF CanRetry(conn.retryCount)
             THEN [conn EXCEPT !.socket = manager, !.connected = FALSE,
                               !.retryCount = @ + 1, !.timers = @ + 1,
                               !.errors = @ + 1]
             ELSE [conn EXCEPT !.socket = manager, !.connected = FALSE,
                               !.errors = @ + 1]
  /\ UNCHANGED notConnect

\* socketInstance.connect(): an attempt starts unless one is under way or
\* the socket is connected
Connect(c) == IF c.socket = "closed" THEN [c EXCEPT !.socket = "opening"] ELSE c

\* setTimeout(() => { socketInstance.connect(); }, 2000) runs
ForcedReconnect ==
  /\ conn.timers > 0
  /\ conn' = Connect([conn EXCEPT !.timers = @ - 1])
  /\ UNCHANGED notConnect

\* socketInstance.on('disconnect', (reason) => ...)
OnDisconnect(reason, manager) ==
  /\ conn.socket = "connected"
  /\ manager \in {"opening", "closed"}
  /\ conn' = IF reason = "io server disconnect"
             THEN Connect([conn EXCEPT !.socket = "closed", !.connected = FALSE])
             ELSE [conn EXCEPT !.socket = manager, !.connected = FALSE]
  /\ UNCHANGED notConnect

\* reconnect(), which a consumer of the context may call
Reconnect ==
  /\ conn.socket = "closed"
  /\ conn' = Connect(conn)
  /\ UNCHANGED notConnect

\* io({..., autoConnect: true}): the first attempt is under way
ConnectStart ==
  conn = [socket |-> "opening", connected |-> FALSE, retryCount |-> 0,
          timers |-> 0, errors |-> 0, pings |-> 0]

(***************************************************************************)
(*                 THE CAPTURE OF AN UTTERANCE AND ITS UPLOAD              *)
(*                                                                         *)
(* client = "classic"   : toggleListening of src/unnamed/part_000 (lines   *)
(*   207-380); its recorder's onstop emits audioChunk and endAudioStream.  *)
(* client = "streaming" : toggleListening of src/unnamed/part_001 (lines   *)
(*   472-664); its recorder's onstop emits transcribeAudio.                *)
(* client = "turn"      : startListening, stopListening and processAudio   *)
(*   of src/unnamed/part_000 (lines 1014-1187); processAudio emits         *)
(*   audioChunk and resends it when the acknowledgment reports a failure.  *)
(*                                                                         *)
(* A function defined in a component's body reads the state of the render  *)
(* in which it was created: a callback registered while a recording is     *)
(* started keeps the isListening and isRecording of the render in which    *)
(* the user pressed the button (mic.closure and the isListening of a       *)
(* timeout).  The recorder delivers a chunk every timeslice and a last one *)
(* when it is stopped; a chunk may be empty.  The socket is connected.     *)
(* The server calls the acknowledgment of an audioChunk at most once for   *)
(* the client: socket.io sends the first call and ignores the later ones,  *)
(* so the response the client handles is the first value.                  *)
(* The clock advances with the timeslices of the turn client's recorder,   *)
(* the only one whose recording sets a timer.                              *)
(***************************************************************************)

Clients == {"classic", "streaming", "turn"}

\* Sizes in bytes of one chunk of recorded audio.
ChunkSizes == {0, 400, 600}

\* The server file a client was written for.
ServerOf(client) ==
  CASE client = "classic" -> "basic"
    [] client = "streaming" -> "guarded"
    [] client = "turn" -> "mime"

\* The acknowledgment is the second argument of the classic client's emit and
\* the third of the turn client's; the mime-aware handler takes it as its third
\* parameter, the other handlers as their second.
AckPassed(client) == (client = "turn") <=> (variant = "mime")

\* socket.emit('audioChunk', ...) or socket.emit('transcribeAudio', ...) and the
\* handler of the server up to its first await
Upload(client, bytes) ==
  IF client = "streaming"
  THEN IF variant = "guarded"
       THEN TranscribeAudioHandler(NewCall("transcribeAudio", Buffer(bytes),
                                           FALSE, CycleInFlight))
       ELSE UNCHANGED <<calls, clientState>>
  ELSE LET c0 == NewCall("audioChunk", Buffer(bytes), AckPassed(client),
                         CycleInFlight)
       IN IF variant = "mime" THEN AudioChunkMime(c0) ELSE AudioChunkGuarded(c0)

\* One processAudio of the turn client: its arrayBuffer, its retryCount, the
\* retry timer, the call of the server that handles its latest emit.
NewUpload(bytes, call) ==
  [bytes |-> bytes, retryCount |-> 0, timer |-> FALSE, call |-> call,
   handled |-> FALSE, emits |-> 1]

\* if (audioChunksRef.current.length === 0) return, and in the classic and the
\* streaming client if (audioBlob.size < 1000) return
Discarded(client, chunks, bytes) ==
  \/ chunks = 0
  \/ client # "turn" /\ bytes < MIN_BLOB_BYTES

\* mediaRecorder.onstop of the classic and the streaming client, processAudio
\* of the turn client: m and pg are the state the stop has left.
OnStop(m, pg, chunks, bytes) ==
  IF Discarded(m.client, chunks, bytes)
  THEN /\ mic' = m
       /\ page' = IF m.client = "turn"
                  THEN [pg EXCEPT !.status = "No audio recorded"]
                  ELSE pg
       /\ UNCHANGED <<calls, clientState>>
  ELSE /\ Upload(m.client, bytes)
       /\ IF m.client = "turn"
          THEN /\ mic' = [m EXCEPT !.chunks = 0, !.bytes = 0,
                                   !.uploads = Append(@, NewUpload(bytes,
                                                         Len(calls) + 1))]
               /\ page' = [pg EXCEPT !.status = "Sending audio to server"]
          ELSE /\ mic' = [m EXCEPT !.chunks = 0, !.bytes = 0]
               /\ page' = [pg EXCEPT !.isTranslating = TRUE]

\* stopListening: the recorder delivers its last chunk and fires 'stop'
StopListening(m0, pg, size) ==
  LET chunks == IF size > 0 THEN m0.chunks + 1 ELSE m0.chunks
      bytes == m0.bytes + size
      m == [m0 EXCEPT !.recorder = "inactive", !.isListening = FALSE,
                      !.isRecording = FALSE, !.chunks = chunks,
                      !.bytes = bytes]
  IN OnStop(m, IF m0.client = "turn"
               THEN [pg EXCEPT !.status = "Processing audio"]
               ELSE pg,
            chunks, bytes)

\* toggleListening while nothing is recorded: the button of the classic and the
\* streaming client is disabled while isTranslating
BeginRecording ==
  /\ mic.recordings < MaxRecordings
  /\ ~mic.isListening
  /\ mic.client # "turn" => ~page.isTranslating
  /\ mic' = [mic EXCEPT
       !.recorder = "recording",
       !.chunks = 0,
       !.bytes = 0,
       !.isListening = TRUE,
       !.isRecording = mic.client = "streaming",
       !.closure = [isListening |-> mic.isListening,
                    isRecording |-> mic.isRecording],
       !.recordings = @ + 1,
       !.timeouts = IF mic.client = "turn"
                    THEN @ \cup {[rec |-> mic.recordings + 1,
                                  due |-> mic.time + maxRecordingDuration,
                                  isListening |-> mic.isListening]}
                    ELSE @]
  /\ page' = [page EXCEPT
       !.transcription = <<>>,
       !.translation = <<>>,
       !.status = IF mic.client = "turn" THEN "Listening" ELSE @]
  /\ UNCHANGED <<serverVars, link, notCapture>>

\* mediaRecorder.ondataavailable after a timeslice
DataAvailable(size) ==
  /\ mic.recorder = "recording"
  /\ mic.client = "turn" => mic.time + TIMESLICE <= MaxRecordingMs
  /\ size > 0 => mic.chunks < MaxChunks
  /\ mic' = [mic EXCEPT
       !.time = IF mic.client = "turn" THEN @ + TIMESLICE ELSE @,
       !.chunks = IF size > 0 THEN @ + 1 ELSE @,
       !.bytes = @ + size]
  /\ IF /\ mic.client = "streaming"
        /\ mic.closure.isRecording
        /\ size > PARTIAL_MIN_BYTES
     THEN Upload(mic.client, size)
     ELSE UNCHANGED <<calls, clientState>>
  /\ UNCHANGED <<variant, page, link, notCapture>>

\* toggleListening while isListening
EndRecording(size) ==
  /\ mic.isListening
  /\ mic.recorder = "recording"
  /\ size > 0 => mic.chunks < MaxChunks
  /\ StopListening(mic, page, size)
  /\ UNCHANGED <<variant, link, notCapture>>

\* The callback of recordingTimeout: isListening is the one of the render in
\* which startListening was called.  Nothing clears the timeout: the function
\* startListening returns is not used.
RecordingTimeout(t, size) ==
  /\ t \in mic.timeouts
  /\ mic.time >= t.due
  /\ size > 0 => mic.chunks < MaxChunks
  /\ IF t.isListening /\ mic.recorder = "recording"
     THEN StopListening([mic EXCEPT !.timeouts = @ \ {t}],
                        [page EXCEPT
                           !.status = "Maximum recording duration reached"],
                        size)
     ELSE /\ mic' = [mic EXCEPT !.timeouts = @ \ {t}]
          /\ UNCHANGED <<page, calls, clientState>>
  /\ UNCHANGED <<variant, link, notCapture>>

\* if (retryCount < maxRetries)
CanRetryAudio(retryCount) == retryCount < maxAudioRetries

\* The first value the server passed to the acknowledgment of a call.
Response(call) == calls[call].acks[1]

\* The acknowledgment callback of sendAudioWithRetry
AckReceived(u) ==
  /\ u \in 1..Len(mic.uploads)
  /\ ~mic.uploads[u].handled
  /\ calls[mic.uploads[u].call].acks # <<>>
  /\ IF Response(mic.uploads[u].call) = "failure"
     THEN IF CanRetryAudio(mic.uploads[u].retryCount)
          THEN /\ mic' = [mic EXCEPT !.uploads[u].handled = TRUE,
                                     !.uploads[u].retryCount = @ + 1,
                                     !.uploads[u].timer = TRUE]
               /\ page' = [page EXCEPT !.status = "Transcription error, retrying"]
          ELSE /\ mic' = [mic EXCEPT !.uploads[u].handled = TRUE]
               /\ page' = [page EXCEPT !.status = "Failed to transcribe"]
     ELSE /\ mic' = [mic EXCEPT !.uploads[u].handled = TRUE]
          /\ page' = [page EXCEPT !.status = "Audio received by server"]
  /\ UNCHANGED <<serverVars, link, notCapture>>

\* setTimeout(sendAudioWithRetry, 1000)
RetryTimeout(u) ==
  /\ u \in 1..Len(mic.uploads)
  /\ mic.uploads[u].timer
  /\ Upload(mic.client, mic.uploads[u].bytes)
  /\ mic' = [mic EXCEPT !.uploads[u].timer = FALSE,
                        !.uploads[u].handled = FALSE,
                        !.uploads[u].call = Len(calls) + 1,
                        !.uploads[u].emits = @ + 1]
  /\ UNCHANGED <<variant, page, link, notCapture>>

PageStart ==
  page = [transcription |-> <<>>, translation |-> <<>>,
          isTranslating |-> FALSE, status |-> "", playback |-> "none"]

CaptureStart(client) ==
  /\ mic = [client |-> client, isListening |-> FALSE, isRecording |-> FALSE,
            recorder |-> "none", chunks |-> 0, bytes |-> 0,
            closure |-> [isListening |-> FALSE, isRecording |-> FALSE],
            time |-> 0, timeouts |-> {}, recordings |-> 0, effectStops |-> 0,
            uploads |-> <<>>]
  /\ PageStart

(***************************************************************************)
(*                     WHAT THE PAGE SHOWS                                 *)
(*                                                                         *)
(* The listeners of the streaming client (src/unnamed/part_001, lines      *)
(* 116-190) and of the turn client (src/unnamed/part_000, lines 771-819    *)
(* and 1260-1281) with the state they set: the transcription and the       *)
(* translation on display, isTranslating, which disables the recording     *)
(* button of the streaming client, the status line of the turn client and  *)
(* the playback of the synthesized speech.  What a listener emits is as in *)
(* the listeners above.  The streaming client has a second recorder, set   *)
(* up by its recording effect, whose onstop emits audioChunk whatever      *)
(* isTranslating is: it is the only emit of the page that the server can   *)
(* reject as Busy, and the page's own flow does not start that recorder,   *)
(* so its utterances are an input of the page.                             *)
(***************************************************************************)

DisplayClients == {"streaming", "turn"}

\* prev + (prev.endsWith(' ') ? '' : ' ') + data.text
Joined(prev, text) ==
  IF prev = <<>> THEN text
  ELSE prev \o (IF prev[Len(prev)] = " " THEN <<>> ELSE <<" ">>) \o text

\* setTranscription of the transcription listener
ShownTranscription(client, prev, data) ==
  IF client = "turn" \/ data.final THEN data.text ELSE Joined(prev, data.text)

\* socket.on('transcription', (data) => ...)
PageTranscription ==
  /\ Arrived
  /\ NextEvent.event = "transcription"
  /\ LET data == NextEvent
         l == [link EXCEPT !.seen = @ + 1]
     IN /\ link' = IF WantsTranslation(data)
                   THEN Send(l, Request("startTranslation", data.text))
                   ELSE l
        /\ page' = IF data.text = <<>> THEN page
                   ELSE [page EXCEPT
                           !.transcription =
                              ShownTranscription(mic.client, @, data),
                           !.status = IF mic.client = "turn"
                                         /\ WantsTranslation(data)
                                      THEN "Translating" ELSE @]
  /\ UNCHANGED <<serverVars, mic, notPage>>

\* socket.on('translation', ...) and socket.on('translationStream', ...)
PageTranslation(speak) ==
  /\ Arrived
  /\ NextEvent.event \in {"translation", "translationStream"}
  /\ LET data == NextEvent
         l == [link EXCEPT !.seen = @ + 1]
     IN /\ link' = IF WantsSpeech(data) /\ speak
                   THEN Send(l, Request("generateSpeech", data.text))
                   ELSE l
        /\ page' = IF data.text = <<>> THEN page
                   ELSE [page EXCEPT
                           !.translation = data.text,
                           !.status = IF mic.client = "turn" /\ data.final
                                      THEN "Generating speech" ELSE @]
  /\ UNCHANGED <<serverVars, mic, notPage>>

\* An error listener that clears what is on display.
AfterError_Cleared(client, pg) ==
  [pg EXCEPT !.transcription = <<>>, !.translation = <<>>,
             !.isTranslating = FALSE]

\* setIsTranslating(false) in the streaming client, setStatus(`Error: ...`) in
\* the turn client
AfterError(client, pg) ==
  IF client = "turn"
  THEN [pg EXCEPT !.status = "Error"]
  ELSE [pg EXCEPT !.isTranslating = FALSE]

\* socket.on('error', (error) => ...)
PageError ==
  /\ Arrived
  /\ NextEvent.event = "error"
  /\ link' = [link EXCEPT !.seen = @ + 1]
  /\ page' = AfterError(mic.client, page)
  /\ UNCHANGED <<serverVars, mic, notPage>>

\* The listeners of the speech events: the audio is played when its last chunk
\* has arrived.
PageSpeech ==
  /\ Arrived
  /\ NextEvent.event \notin {"transcription", "translation",
                            "translationStream", "error"}
  /\ link' = [link EXCEPT !.seen = @ + 1]
  /\ page' = IF NextEvent.final
             THEN [page EXCEPT !.playback = "playing"]
             ELSE page
  /\ UNCHANGED <<serverVars, mic, notPage>>

\* onEnded of the audio element; in the turn client handleAudioEnd, whose swap
\* of the languages is followed with the turns
AudioEnded ==
  /\ page.playback = "playing"
  /\ page' = [page EXCEPT
       !.playback = "ended",
       !.status = IF mic.client = "turn" THEN "Swapping languages" ELSE @]
  /\ UNCHANGED <<serverVars, mic, notCapture>>

\* mediaRecorder.onstop of the recorder of the recording effect: an utterance
\* of at least 1000 bytes is emitted as audioChunk, without an acknowledgment
EffectRecorderStop ==
  /\ mic.client = "streaming"
  /\ mic.effectStops < MaxEffectStops
  /\ AudioChunkGuarded(NewCall("audioChunk", Buffer(MIN_BLOB_BYTES), FALSE,
                               CycleInFlight))
  /\ mic' = [mic EXCEPT !.effectStops = @ + 1]
  /\ UNCHANGED <<variant, page, notCapture>>

(***************************************************************************)
(*                           SPECIFICATIONS                                *)
(***************************************************************************)
InitServer ==
  /\ \E v \in Variants : ServerStart(v)
  /\ AudioStart("speechChunk")
  /\ SilenceStart
  /\ TurnStart("en", "es")
  /\ StreamStart("streaming")
  /\ LinkStart(FALSE)
  /\ SocketsStart("handlers")
  /\ CyclesStart
  /\ ConnectStart
  /\ CaptureStart("streaming")

NextServer ==
  \/ \E p \in Payloads, hasAck \in BOOLEAN : AudioChunk(p, hasAck)
  \/ \E p \in DirectPayloads : TranscribeAudio(p)
  \/ EngineStep
  \/ \E data \in LanguageData : ChangeLanguage(data)
  \/ EndAudioStream

SpecServer == InitServer /\ [][NextServer]_vars

\* Every engine call eventually returns or throws.
SpecServerFair ==
  SpecServer /\ WF_vars(EngineStep)

InitAudio ==
  /\ ServerStart("basic")
  /\ \E p \in Protocols : AudioStart(p)
  /\ SilenceStart
  /\ TurnStart("en", "es")
  /\ StreamStart("streaming")
  /\ LinkStart(FALSE)
  /\ SocketsStart("handlers")
  /\ CyclesStart
  /\ ConnectStart
  /\ CaptureStart("streaming")

NextAudio ==
  \/ \E n \in 0..MaxBuffer : GenerateSpeech(n)
  \/ SpeechCompleteBesidesLast
  \/ \E m \in wire : OnSpeechStart(m)
  \/ \E m \in wire : OnSpeechChunk(m)
  \/ \E m \in wire : OnSpeechComplete(m)
  \/ \E m \in wire : OnSpeechData(m)

SpecAudio == InitAudio /\ [][NextAudio]_vars

InitSilence ==
  /\ ServerStart("basic")
  /\ AudioStart("speechChunk")
  /\ SilenceStart
  /\ TurnStart("en", "es")
  /\ StreamStart("streaming")
  /\ LinkStart(FALSE)
  /\ SocketsStart("handlers")
  /\ CyclesStart
  /\ ConnectStart
  /\ CaptureStart("streaming")

NextSilence ==
  \/ ToggleListening
  \/ \E throws \in BOOLEAN : StopListeningTimeout(throws)
  \/ \E e \in FrameEnergies : DetectSilence(e)
  \/ \E l \in SourceLanguages : SetSourceLanguage(l)
  \/ \E e \in Energies : RecordingEffect(e)
  \/ \E e \in Energies, late \in Lateness : SilenceTimer(e, late)

SpecSilence == InitSilence /\ [][NextSilence]_vars

InitTurn ==
  /\ ServerStart("basic")
  /\ AudioStart("speechChunk")
  /\ SilenceStart
  /\ \E source \in Languages, target \in Languages : TurnStart(source, target)
  /\ StreamStart("streaming")
  /\ LinkStart(FALSE)
  /\ SocketsStart("handlers")
  /\ CyclesStart
  /\ ConnectStart
  /\ CaptureStart("streaming")

NextTurn ==
  \/ PlayAudio
  \/ HandleAudioEnd
  \/ \E t \in timers : SwapTimeout(t)
  \/ \E t \in timers : StartTimeout(t)
  \/ \E ok \in BOOLEAN : GetUserMediaReturn(ok)
  \/ Tick

SpecTurn == InitTurn /\ [][NextTurn]_vars

InitStream ==
  /\ ServerStart("basic")
  /\ AudioStart("speechChunk")
  /\ SilenceStart
  /\ TurnStart("en", "es")
  /\ \E client \in StreamClients : StreamStart(client)
  /\ LinkStart(FALSE)
  /\ SocketsStart("handlers")
  /\ CyclesStart
  /\ ConnectStart
  /\ CaptureStart("streaming")

NextStream ==
  \/ \E data \in StreamData : TranslationStream(data)
  \/ \E i \in 1..MaxStreamEvents : SpeechTimeout(i)
  \/ SocketChange

SpecStream == InitStream /\ [][NextStream]_vars

\* One utterance of a session, from the client's audio to the synthesized
\* speech.
InitSession ==
  /\ \E v \in Variants : ServerStart(v)
  /\ AudioStart("speechChunk")
  /\ SilenceStart
  /\ TurnStart("en", "es")
  /\ StreamStart("streaming")
  /\ LinkStart(TRUE)
  /\ SocketsStart("handlers")
  /\ CyclesStart
  /\ ConnectStart
  /\ CaptureStart("streaming")

NextSession ==
  \/ Utterance
  \/ EngineStep
  \/ StartTranslation
  \/ SpeechRequest
  \/ \E i \in 1..Len(calls), ok \in BOOLEAN : SpeechReturn(i, ok)
  \/ NoHandler
  \/ OnTranscription
  \/ \E speak \in BOOLEAN : OnTranslation(speak)
  \/ OnOther

SpecSession == InitSession /\ [][NextSession]_vars

\* One page records utterances and uploads them to the server it was written
\* for.
InitCapture ==
  /\ \E client \in Clients :
       /\ ServerStart(ServerOf(client))
       /\ CaptureStart(client)
  /\ AudioStart("speechChunk")
  /\ SilenceStart
  /\ TurnStart("en", "es")
  /\ StreamStart("streaming")
  /\ LinkStart(FALSE)
  /\ SocketsStart("handlers")
  /\ CyclesStart
  /\ ConnectStart

NextCapture ==
  \/ BeginRecording
  \/ \E size \in ChunkSizes : DataAvailable(size)
  \/ \E size \in ChunkSizes : EndRecording(size)
  \/ \E t \in mic.timeouts, size \in ChunkSizes : RecordingTimeout(t, size)
  \/ \E u \in 1..Len(mic.uploads) : AckReceived(u)
  \/ \E u \in 1..Len(mic.uploads) : RetryTimeout(u)
  \/ EngineStep

SpecCapture == InitCapture /\ [][NextCapture]_vars

\* One page of the streaming or the turn client and its server, from the
\* recording of an utterance to the end of the playback.
InitDisplay ==
  /\ \E client \in DisplayClients :
       /\ ServerStart(ServerOf(client))
       /\ CaptureStart(client)
  /\ AudioStart("speechChunk")
  /\ SilenceStart
  /\ TurnStart("en", "es")
  /\ StreamStart("streaming")
  /\ LinkStart(TRUE)
  /\ SocketsStart("handlers")
  /\ CyclesStart
  /\ ConnectStart

NextDisplay ==
  \/ BeginRecording
  \/ \E size \in ChunkSizes \ {0} : DataAvailable(size)
  \/ \E size \in ChunkSizes : EndRecording(size)
  \/ \E u \in 1..Len(mic.uploads) : AckReceived(u)
  \/ \E u \in 1..Len(mic.uploads) : RetryTimeout(u)
  \/ EngineStep
  \/ StartTranslation
  \/ SpeechRequest
  \/ \E i \in 1..Len(calls), ok \in BOOLEAN : SpeechReturn(i, ok)
  \/ PageTranscription
  \/ \E speak \in BOOLEAN : PageTranslation(speak)
  \/ PageError
  \/ PageSpeech
  \/ AudioEnded

SpecDisplay == InitDisplay /\ [][NextDisplay]_vars

\* The page of the streaming client while the recorder of its recording effect
\* emits utterances: the events of the audioChunk cycles and of their
\* rejections reach the listeners.  The requests the listeners emit are
\* handled in SpecDisplay.
InitBusy ==
  /\ ServerStart(ServerOf("streaming"))
  /\ AudioStart("speechChunk")
  /\ SilenceStart
  /\ TurnStart("en", "es")
  /\ StreamStart("streaming")
  /\ LinkStart(TRUE)
  /\ SocketsStart("handlers")
  /\ CyclesStart
  /\ ConnectStart
  /\ CaptureStart("streaming")

NextBusy ==
  \/ EffectRecorderStop
  \/ EngineStep
  \/ PageTranscription
  \/ \E speak \in BOOLEAN : PageTranslation(speak)
  \/ PageError

SpecBusy == InitBusy /\ [][NextBusy]_vars

\* Several sockets connected to one server.
InitSockets ==
  /\ ServerStart("basic")
  /\ AudioStart("speechChunk")
  /\ SilenceStart
  /\ TurnStart("en", "es")
  /\ StreamStart("streaming")
  /\ LinkStart(FALSE)
  /\ \E server \in IoServers : SocketsStart(server)
  /\ CyclesStart
  /\ ConnectStart
  /\ CaptureStart("streaming")

NextSockets ==
  \/ \E s \in Sockets, p \in Payloads, ends \in BOOLEAN : SocketAudioChunk(s, p, ends)
  \/ \E s \in Sockets : SocketEndAudioStream(s)
  \/ \E s \in Sockets, r \in TranscribeOutcomes : SocketTranscribeReturn(s, r)
  \/ \E s \in Sockets, ok \in BOOLEAN : SocketTranslateReturn(s, ok)
  \/ \E s \in Sockets, data \in LanguageData : SocketChangeLanguage(s, data)

SpecSockets == InitSockets /\ [][NextSockets]_vars

\* One connection to the server of handlers.js, followed through its uploads.
TheSocket == CHOOSE s \in Sockets : \A t \in Sockets : s <= t

InitUpload ==
  /\ ServerStart("basic")
  /\ AudioStart("speechChunk")
  /\ SilenceStart
  /\ TurnStart("en", "es")
  /\ StreamStart("streaming")
  /\ LinkStart(FALSE)
  /\ SocketsStart("handlers")
  /\ CyclesStart
  /\ ConnectStart
  /\ CaptureStart("streaming")

NextUpload ==
  \/ \E p \in Payloads, ends \in BOOLEAN : SocketAudioChunk(TheSocket, p, ends)
  \/ SocketEndAudioStream(TheSocket)
  \/ \E r \in TranscribeOutcomes : SocketTranscribeReturn(TheSocket, r)
  \/ \E ok \in BOOLEAN : SocketTranslateReturn(TheSocket, ok)
  \/ \E data \in LanguageData : SocketChangeLanguage(TheSocket, data)

SpecUpload == InitUpload /\ [][NextUpload]_vars


InitCycles ==
  /\ ServerStart("basic")
  /\ \E p \in Protocols : AudioStart(p)
  /\ SilenceStart
  /\ TurnStart("en", "es")
  /\ StreamStart("streaming")
  /\ LinkStart(FALSE)
  /\ SocketsStart("handlers")
  /\ CyclesStart
  /\ ConnectStart
  /\ CaptureStart("streaming")

NextCycles ==
  \/ TranslationFinal
  \/ ReceiveTranslationStream
  \/ RecordingStarts
  \/ \E k \in 1..Len(speech) : SynthesisFails(k)
  \/ \E k \in 1..Len(speech), n \in 0..MaxSpeechBytes : SynthesisReturns(k, n)
  \/ \E k \in 1..Len(speech) : NextIteration(k)
  \/ \E k \in 1..Len(speech) : EmitSpeechComplete(k)
  \/ ReceiveSpeechStart
  \/ ReceiveSpeechChunk
  \/ ReceiveSpeechComplete
  \/ ReceiveSpeechData

SpecCycles == InitCycles /\ [][NextCycles]_vars

\* The connection provider from the creation of its socket.
InitConnect ==
  /\ ServerStart("basic")
  /\ AudioStart("speechChunk")
  /\ SilenceStart
  /\ TurnStart("en", "es")
  /\ StreamStart("streaming")
  /\ LinkStart(FALSE)
  /\ SocketsStart("handlers")
  /\ CyclesStart
  /\ ConnectStart
  /\ CaptureStart("streaming")

NextConnect ==
  \/ OnConnect
  \/ \E manager \in {"opening", "closed"} : OnConnectError(manager)
  \/ ForcedReconnect
  \/ \E reason \in DisconnectReasons, manager \in {"opening", "closed"} :
       OnDisconnect(reason, manager)
  \/ Reconnect

SpecConnect == InitConnect /\ [][NextConnect]_vars

(***************************************************************************)
(* Claims about the server's handlers.                                     *)
(***************************************************************************)
AudioChunkCalls == {i \in 1..Len(calls) : calls[i].kind = "audioChunk"}

HasEmitted(c, name, message) ==
  \E k \in 1..Len(c.emitted) :
    c.emitted[k].event = name /\ c.emitted[k].message = message

ValidSize(p) == p.present /\ p.byteLength >= MIN_AUDIO_BYTES

\* C3: an audioChunk of valid size that arrives while an earlier audioChunk
\* cycle of the session is still in flight gets the error 'Still processing
\* previous audio' and starts no engine call.
C3_SecondChunkRejected ==
  \A i \in AudioChunkCalls :
    (calls[i].busyAtArrival /\ ValidSize(calls[i].payload))
      => /\ calls[i].transcribeCalls = 0
         /\ calls[i].translateCalls = 0
         /\ HasEmitted(calls[i], "error", "Still processing previous audio")

\* C4: a cycle that set isProcessing leaves it false when it ends, whatever the
\* path it ends by, and a set isProcessing is eventually false again when every
\* engine call returns or throws.
C4_GuardReleased ==
  /\ [][\A i \in 1..Len(calls) :
          (calls[i].guard /\ calls[i].pc # "done" /\ calls'[i].pc = "done")
            => ~clientState'.isProcessing]_vars
  /\ (clientState.isProcessing ~> ~clientState.isProcessing)

\* C4 witness: a cycle that held the guard ended by an error, and a later
\* cycle of the session then held the guard and ended by a final translation.
C4_Witness ==
  /\ ~clientState.isProcessing
  /\ \E i, j \in AudioChunkCalls :
       /\ i < j
       /\ calls[i].guard /\ calls[i].pc = "done"
       /\ HasEmitted(calls[i], "error", "Error processing audio")
       /\ calls[j].guard /\ calls[j].pc = "done"
       /\ calls[j].translateCalls = 1
       /\ \E k \in 1..Len(calls[j].emitted) :
            calls[j].emitted[k].final /\ calls[j].emitted[k].event # "transcription"

\* C5: an audioChunk payload that is missing, empty or shorter than 1000 bytes
\* never starts an engine call, and handling it leaves isProcessing unchanged.
C5_UndersizedNoEngineCall ==
  /\ [](\A i \in AudioChunkCalls :
          ~ValidSize(calls[i].payload)
            => /\ calls[i].transcribeCalls = 0
               /\ calls[i].translateCalls = 0
               /\ calls[i].pc = "done")
  /\ [][(/\ Len(calls') = Len(calls) + 1
         /\ calls'[Len(calls')].kind = "audioChunk"
         /\ ~ValidSize(calls'[Len(calls')].payload))
          => clientState'.isProcessing = clientState.isProcessing]_vars

\* C5 witness: a 999-byte audioChunk was handled while a cycle held the guard.
C5_Witness ==
  /\ clientState.isProcessing
  /\ \E i \in AudioChunkCalls :
       /\ calls[i].payload.present
       /\ calls[i].payload.byteLength = MIN_AUDIO_BYTES - 1
       /\ calls[i].busyAtArrival
       /\ calls[i].pc = "done"

\* C6: every undersized or empty audioChunk is reported to its sender, by an
\* error event or by a failure acknowledgment, with or without a callback.
C6_UndersizedReported ==
  \A i \in AudioChunkCalls :
    ~ValidSize(calls[i].payload)
      => \/ \E k \in 1..Len(calls[i].emitted) : calls[i].emitted[k].event = "error"
         \/ \E k \in 1..Len(calls[i].acks) : calls[i].acks[k] = "failure"

\* e is a final transcription event with the text given
IsTranscription(e, text) == e.event = "transcription" /\ e.final /\ e.text = text

\* The answers of the transcription engine that carry no speech.
BlankOutcomes == {r \in TranscribeOutcomes : r.ok /\ r.text \in {<<>>, <<" ">>}}

\* C12: when the transcription of an accepted audioChunk returns an empty or
\* whitespace-only text, the handler emits a transcription event with text ''
\* and final = true, makes no translation call, ends, and leaves isProcessing
\* false.
C12_BlankTranscription ==
  [][\A i \in 1..Len(calls), r \in BlankOutcomes :
       (calls[i].kind = "audioChunk" /\ TranscribeReturn(i, r))
         => /\ calls'[i].pc = "done"
            /\ Len(calls'[i].emitted) = Len(calls[i].emitted) + 1
            /\ IsTranscription(calls'[i].emitted[Len(calls'[i].emitted)], <<>>)
            /\ calls'[i].translateCalls = 0
            /\ ~clientState'.isProcessing]_vars

\* C12 witness: an accepted audioChunk whose transcription came back blank.
C12_Witness ==
  /\ ~clientState.isProcessing
  /\ \E i \in AudioChunkCalls :
       /\ ValidSize(calls[i].payload)
       /\ calls[i].transcribeCalls = 1
       /\ calls[i].pc = "done"
       /\ Len(calls[i].emitted) = 1
       /\ IsTranscription(calls[i].emitted[1], <<>>)

\* The handler invocations of the session that are waiting for an engine.
CyclesInFlight == {i \in 1..Len(calls) : calls[i].pc # "done"}

\* C18: the server that keeps the isProcessing flag has at most one
\* transcribe-translate cycle of the session in flight, counting the cycles
\* of every handler that calls the engines.
C18_OneCycleInFlight ==
  variant = "guarded" => Cardinality(CyclesInFlight) <= 1

\* The audioChunk was turned away before any engine call: its payload is
\* undersized, or the guard was held when it arrived.
Rejected(c) ==
  \/ ~ValidSize(c.payload)
  \/ HasEmitted(c, "error", "Still processing previous audio")

\* The transcription of the cycle threw.
TranscriptionFailed(c) == c.failed /\ c.translateCalls = 0

\* C39: for every audioChunk that came with an acknowledgment callback and
\* whose handler has returned, the handler invoked the callback exactly once,
\* and it passed a failure exactly when the payload was rejected or the
\* transcription failed.
C39_AckOnceWithOutcome ==
  \A i \in AudioChunkCalls :
    (calls[i].hasAck /\ calls[i].pc = "done")
      => /\ Len(calls[i].acks) = 1
         /\ calls[i].acks[1] = "failure"
              <=> (Rejected(calls[i]) \/ TranscriptionFailed(calls[i]))

(***************************************************************************)
(* Claims about the transfer of synthesized audio.                         *)
(***************************************************************************)
ChunkMessages == {m \in wire : m.type \in {"speechChunk", "speechData"}}

AllChunksArrived ==
  /\ transfers > 0
  /\ Len(buffer) > 0
  /\ ~\E m \in wire : m.type \in {"speechStart", "metadata"}
  /\ ChunkMessages = {}

\* C1: once the client has received both a speechChunk with isLastChunk
\* and a speechComplete signal of one transfer, playback has been started
\* exactly once for that transfer.
C1_PlaybackExactlyOnce ==
  (protocol = "speechChunk" /\ signals.last /\ signals.complete)
    => Len(played) = 1

\* C2: once all the chunk messages of a transfer have arrived, in whatever
\* order, a buffer has been handed to playback and every buffer handed to
\* playback equals the original payload, byte for byte.
C2_ByteIdentical ==
  AllChunksArrived
    => /\ played # <<>>
       /\ \A k \in 1..Len(played) : played[k] = buffer

\* C15: a payload handed to playback lacks no chunk of the transfer: every
\* byte of the synthesized buffer is in it, whatever the order in which the
\* chunks and the completion triggers arrived.
C15_NoChunkAbsent ==
  \A k \in 1..Len(played) :
    \A b \in 1..Len(buffer) : \E j \in 1..Len(played[k]) : played[k][j] = buffer[b]

\* the chunk events among those the server emitted, in order of emission
ChunkEvents == SelectSeq(sent, LAMBDA m : m.type \in {"speechChunk", "speechData"})

\* the metadata events among those the server emitted
MetadataEvents == SelectSeq(sent, LAMBDA m : m.type \in {"speechStart", "metadata"})

\* C21: for a synthesized buffer of length L > 0 the server emits exactly
\* ceil(L / chunk size) chunk events, their indices are 0, 1, ... in the order
\* of emission, the chunks concatenated in that order equal the buffer, and
\* the last-chunk flag is true on the event of the highest index and on no
\* other.
C21_ChunkingPartition ==
  (transfers > 0 /\ Len(buffer) > 0)
    => /\ Len(ChunkEvents) = Ceil(Len(buffer), ChunkSize)
       /\ \A k \in 1..Len(ChunkEvents) :
            /\ ChunkEvents[k].chunkIndex = k - 1
            /\ ChunkEvents[k].last <=> (k = Len(ChunkEvents))
       /\ Blob([k \in 1..Len(ChunkEvents) |-> ChunkEvents[k].chunk]) = buffer

\* a transfer of several chunks whose length is a multiple of the chunk size
C21_Witness ==
  /\ transfers > 0
  /\ Len(buffer) > ChunkSize
  /\ Len(buffer) % ChunkSize = 0
  /\ Len(ChunkEvents) > 1

\* C22: the totalChunks value announced in the metadata event of a
\* transfer of a non-empty buffer equals the number of chunk events the
\* server emits for that transfer.
C22_TotalChunksAnnounced ==
  (transfers > 0 /\ Len(buffer) > 0)
    => \A k \in 1..Len(MetadataEvents) :
         MetadataEvents[k].totalChunks = Len(ChunkEvents)

\* C30: for every transfer the server emits the metadata event (speechStart,
\* or the speechData event that carries metadata) exactly once, and it emits
\* it before the first chunk event.
C30_MetadataFirstOnce ==
  transfers > 0
    => /\ Len(MetadataEvents) = 1
       /\ \A k \in 1..Len(sent) :
            sent[k].type \in {"speechChunk", "speechData", "speechComplete"}
              => \E j \in 1..(k - 1) :
                   sent[j].type \in {"speechStart", "metadata"}

\* a transfer of the speechData events with several chunks
C30_Witness ==
  /\ transfers > 0
  /\ protocol = "speechData"
  /\ Len(sent) > 2
  /\ sent[1].type = "metadata"
  /\ sent[2].type = "speechData"

\* the client finalized the transfer while it held no chunk of it
FinalizedWithoutChunks == feedback.console # ""

\* C26: when a transfer is finalized and no chunk of it has been received, no
\* playback event fires and no audio URL is created for it, and the failure
\* is reported to the user as an error status.
C26_AllMissingReported ==
  FinalizedWithoutChunks
    => /\ played = <<>>
       /\ ~feedback.url
       /\ feedback.status = "Error: No audio data received"

\* the indices the client holds when the step of this transition finalizes
\* the transfer: the map of the streaming client after the step, the map of
\* the speechData client with the chunk of the event the step delivers
ReceivedAtFinalize ==
  IF protocol = "speechChunk" THEN DOMAIN audioChunksMapRef'
  ELSE DOMAIN audioChunksMapRef \cup {m.chunkIndex : m \in wire \ wire'}

\* the step finalizes the transfer
Finalizes ==
  IF protocol = "speechChunk" THEN ~hasFinalized /\ hasFinalized'
  ELSE ~signals.last /\ signals'.last

\* the bytes of the buffer that lie in the chunks of the given indices, in
\* the order of the buffer
BytesOf(indices) ==
  SelectSeq(buffer, LAMBDA b : ((b - 1) \div ChunkSize) \in indices)

\* C27: when a transfer is finalized with some but not all of its indices
\* received, the payload handed to playback is the concatenation, in
\* increasing index order, of exactly the received chunks, the missing
\* indices being skipped, and playback starts once.
C27_GapTolerant ==
  /\ [](Len(played) <= 1)
  /\ [][ ( /\ Finalizes
           /\ ReceivedAtFinalize # {}
           /\ Cardinality(ReceivedAtFinalize) < Len(ChunkEvents) )
         => played' = <<BytesOf(ReceivedAtFinalize)>> ]_vars

\* a payload was handed to playback that holds the last chunk of a transfer
\* of three chunks and the first, without the one between them
C27_Witness ==
  /\ Len(ChunkEvents) > 2
  /\ Len(played) = 1
  /\ played[1] = BytesOf({0, Len(ChunkEvents) - 1})

(***************************************************************************)
(* Claims about the synthesis cycles of one session.                       *)
(***************************************************************************)
\* every run of generateSpeech has ended and the client has handled all the
\* events
Quiescent ==
  /\ finals = MaxRequests
  /\ channel = <<>>
  /\ \A k \in 1..Len(speech) : speech[k].pc = "done"

\* the number of times the buffer of run k was handed to playback
PlayedTimes(k) ==
  Cardinality({j \in 1..Len(played) : played[j] = speech[k].buf})

\* C28: over the synthesis cycles of one session every transfer whose chunks
\* all arrive is played exactly once: the latch a cycle left set does not
\* suppress the playback of a later transfer, and a reset of the latch does
\* not let a transfer play again.
C28_EachTransferPlayedOnce ==
  Quiescent
    => \A k \in 1..Len(speech) :
         speech[k].buf # <<>> => PlayedTimes(k) = 1

\* C29: when two generateSpeech requests overlap, no payload the client
\* hands to playback combines chunks of two different transfers.
C29_NoMixedPayload ==
  \A j \in 1..Len(played) :
    \A a \in Range(played[j]), b \in Range(played[j]) :
      TransferOf(a) = TransferOf(b)

C16_StopReleasesCapture ==
  (capture.captures > 0 /\ ~capture.isListening)
    => /\ capture.flushRequested
       /\ capture.recorder = "inactive"
       /\ ~capture.tracksLive
       /\ ~capture.contextOpen

\* C23: once the user has stopped the capture with stopListening, before any
\* silence timeout fired, the silence detector triggers no stop of the
\* recorder: during the delay between the stop request and the cleanup the
\* recorder is stopped by the timeout of stopListening and by nothing else.
C23_NoAutoStopAfterUserStop ==
  [][ ( /\ capture.stopPending
        /\ capture.recorder = "recording"
        /\ capture'.recorder = "inactive" )
      => ~capture'.stopPending ]_vars

\* C24: in one utterance silence detection calls for the stop of the
\* recorder at most once, with both detectors of the component set up: the
\* detector of the recording effect stops it at most once and the
\* animation-frame detector never arms its timeout.
C24_OneAutoStop ==
  /\ capture.autoStops <= 1
  /\ ~capture.silenceTimeout

\* the detector of the recording effect has stopped the recorder of a
\* capture whose animation-frame detector had run
C24_Witness ==
  /\ capture.captures > 0
  /\ ~capture.framePending
  /\ capture.autoStops = 1
  /\ capture.recorder = "inactive"

\* C25: a sample at or above the silence threshold, taken while a silence
\* is being timed, clears the silence start time; the start time is set
\* again only by a sample below the threshold, to the time of that sample;
\* and an auto-stop comes only at a sample below the threshold taken more
\* than SILENCE_DURATION after the start time: a full silence duration
\* counted from the first sample below the threshold after the sound.
C25_SoundCancelsSilence ==
  [][ \A e \in Energies, late \in Lateness :
        SilenceTimer(e, late)
          => /\ e >= SILENCE_THRESHOLD => ~detector'.silenceStart.set
             /\ ( /\ detector'.silenceStart.set
                  /\ detector'.silenceStart # detector.silenceStart )
                  => /\ e < SILENCE_THRESHOLD
                     /\ ~detector.silenceStart.set
                     /\ detector'.silenceStart.at = now'
             /\ capture'.autoStops > capture.autoStops
                  => /\ e < SILENCE_THRESHOLD
                     /\ detector.silenceStart.set
                     /\ now' - detector.silenceStart.at > SILENCE_DURATION ]_vars

\* a sound has ended a silence that was being timed: the start time is
\* cleared and the recording goes on
C25_Witness ==
  /\ detector.active
  /\ run.short
  /\ ~run.set
  /\ ~detector.silenceStart.set
  /\ capture.recorder = "recording"
  /\ capture.autoStops = 0

(***************************************************************************)
(* Claims about the turn-taking controller.                                *)
(***************************************************************************)
\* C8: when the device has fired two 'ended' events for one playback, the
\* second before the restart scheduled by the first has run, startListening
\* has been called at most once; once no timeout is pending it has been
\* called exactly once and the languages (a, b) of the first event have
\* been exchanged exactly once, to (b, a).
C8_SecondEndedIgnored ==
  (turnLog.ended = 2 /\ turnLog.early)
    => /\ turnLog.starts <= 1
       /\ timers = {}
            => /\ turnLog.starts = 1
               /\ turn.sourceLanguage = turnLog.b
               /\ turn.targetLanguage = turnLog.a

\* C9: after one 'ended' event with (source, target) = (a, b): once the
\* swap timeout has run the languages are (b, a) and both texts are empty;
\* startListening is called at most once, only after the swap and at
\* least SETTLE_DELAY later; once no timeout is pending it has been called
\* exactly once.
C9_SwapThenRestart ==
  turnLog.ended = 1
    => /\ turnLog.swaps <= 1 /\ turnLog.starts <= 1
       /\ turnLog.swaps = 0
            => /\ turn.sourceLanguage = turnLog.a
               /\ turn.targetLanguage = turnLog.b
               /\ turnLog.starts = 0
       /\ turnLog.swaps = 1
            => /\ turn.sourceLanguage = turnLog.b
               /\ turn.targetLanguage = turnLog.a
               /\ turn.transcription = NoText
               /\ turn.translation = NoText
       /\ turnLog.starts = 1 => clock - turnLog.swapAt >= SETTLE_DELAY
       /\ timers = {} => turnLog.swaps = 1 /\ turnLog.starts = 1

\* one 'ended' event with different languages, the restart done
C9_Witness ==
  /\ turnLog.ended = 1
  /\ turnLog.a # turnLog.b
  /\ turnLog.starts = 1
  /\ turn.sourceLanguage = turnLog.b
  /\ turn.targetLanguage = turnLog.a

\* C17: when getUserMedia rejects during the automatic restart, the client
\* sets an error status, leaves isListening as it was (false), and schedules
\* and attempts no further capture start; every automatic start answers a
\* playback completion of its own.
C17_FailedRestart ==
  /\ [][GetUserMediaReturn(FALSE)
          => /\ turn'.status = "Error"
             /\ turn'.isListening = turn.isListening
             /\ turn'.micPending = turn.micPending - 1
             /\ timers' = timers
             /\ turnLog'.starts = turnLog.starts]_vars
  /\ [](turnLog.starts <= turnLog.ended)
  /\ []((turnLog.ended = 1 /\ turn.status = "Error") => ~turn.isListening)

\* C17 witness: the restart after one 'ended' event failed and nothing is
\* pending.
C17_Witness ==
  /\ turnLog.ended = 1 /\ turnLog.starts = 1
  /\ turn.status = "Error"
  /\ ~turn.isListening
  /\ turn.micPending = 0
  /\ timers = {}

(***************************************************************************)
(* Claims about the handling of the translation stream.                    *)
(***************************************************************************)
\* C10: when the client has received two translationStream events with
\* partial = false for one utterance, it has emitted generateSpeech at
\* most once for that utterance.
C10_OneSpeechRequest ==
  stream.finals >= 2 => Len(stream.requests) <= 1

(***************************************************************************)
(* Claims about one session, from the audio to the synthesized speech.     *)
(***************************************************************************)
TranslationEvents == {"translation", "translationStream"}

SpeechEvents == {"speechStart", "speechChunk", "speechData"}

\* an event of the kinds given was emitted to the session before e
Preceded(e, names, final) ==
  \E d \in AllEmitted : d.event \in names /\ d.final = final /\ d.at < e.at

\* C11: the events of an utterance are emitted in causal order: a final
\* transcription event before any translation event, and a final translation
\* event before any speech metadata or speech chunk.
C11_CausalOrder ==
  \A e \in AllEmitted :
    /\ e.event \in TranslationEvents => Preceded(e, {"transcription"}, TRUE)
    /\ e.event \in SpeechEvents => Preceded(e, TranslationEvents, TRUE)

\* C11 witness: a streamed translation with a partial event, followed by the
\* speech of the utterance, all handled by the client.
C11_Witness ==
  /\ \E e \in AllEmitted : e.event = "translationStream" /\ ~e.final
  /\ \E e \in AllEmitted : e.event = "speechChunk"
  /\ link.seen = EmitCount

\* C13: a handler in which a transcription, translation or synthesis call
\* failed has emitted an 'error' event to the session.
C13_FailureReported ==
  \A i \in 1..Len(calls) :
    calls[i].failed
      => \E k \in 1..Len(calls[i].emitted) : calls[i].emitted[k].event = "error"

\* C19: a startTranslation request that arrives while isProcessing is true
\* starts no translation call.
C19_GuardedStartTranslation ==
  \A i \in 1..Len(calls) :
    (calls[i].kind = "startTranslation" /\ calls[i].busyAtArrival)
      => calls[i].translateCalls = 0

FinalStreamEvents ==
  {e \in AllEmitted : e.event = "translationStream" /\ e.final}

\* C20: for one accepted utterance, with the client emitting startTranslation
\* on the final transcription, the server calls the translation engine at most
\* once and emits at most one final translationStream event.
C20_TranslatedOnce ==
  /\ \A i, j \in 1..Len(calls) :
       (calls[i].translateCalls > 0 /\ calls[j].translateCalls > 0) => i = j
  /\ Cardinality(FinalStreamEvents) <= 1

(***************************************************************************)
(* Claims about several sockets on one server.                             *)
(***************************************************************************)
\* C14: with two or more connected sockets, every message a socket has
\* received was caused by an event of that socket.
C14_SessionIsolation ==
  \A s \in Sockets : \A msg \in sockets[s].inbox : msg.cause = s

(***************************************************************************)
(* Claims about one connection to the server of handlers.js.               *)
(***************************************************************************)
\* C36: within one audioChunk cycle the language pair is fixed: the languages
\* passed to the translation are those the session held when the audioChunk
\* was accepted, whatever changeLanguage message was handled meanwhile.
C36_LanguagePairFixed ==
  \A s \in Sockets :
    sockets[s].pc = "translating"
      => sockets[s].translatedWith = sockets[s].accepted

\* C37: endAudioStream starts no cycle: handling it leaves the handler's
\* position, the guard and the count of cycles of the utterance as they were,
\* so the server runs at most one cycle for an utterance sent as audioChunk
\* followed by endAudioStream.
C37_EndStartsNoCycle ==
  /\ [](\A s \in Sockets : sockets[s].cycles <= 1)
  /\ [][\A s \in Sockets :
          (sockets[s].stream = "pending" /\ sockets'[s].stream = "ended")
            => /\ sockets'[s].cycles = sockets[s].cycles
               /\ sockets'[s].pc = sockets[s].pc
               /\ sockets'[s].clientState = sockets[s].clientState]_vars

\* C37 witness: an accepted audioChunk was followed by endAudioStream, the
\* server handled both, and the one cycle of the utterance has ended with
\* its translation.
C37_Witness ==
  \E s \in Sockets :
    /\ sockets[s].stream = "ended"
    /\ sockets[s].cycles = 1
    /\ sockets[s].pc = "idle"
    /\ Message("translation", s) \in sockets[s].inbox

(***************************************************************************)
(* Claims about the connection provider.                                   *)
(***************************************************************************)
\* C38: retryCount never exceeds maxRetries; a connect_error that follows
\* maxRetries connect_error events in a row schedules no forced reconnect;
\* and a connect resets retryCount to 0.
C38_RetryCountBounded ==
  /\ [](conn.retryCount <= maxRetries)
  /\ [][(conn'.errors > conn.errors /\ conn.errors >= maxRetries)
          => conn'.timers = conn.timers]_vars
  /\ [][(conn.socket # "connected" /\ conn'.socket = "connected")
          => conn'.retryCount = 0]_vars

\* C38 witness: the provider had connected and lost the connection; of the
\* four connect_error events in a row that followed, the fourth found
\* retryCount at maxRetries, and no forced reconnect is pending.
C38_Witness ==
  /\ conn.pings > 0
  /\ conn.errors = maxRetries + 1
  /\ conn.retryCount = maxRetries
  /\ conn.timers = 0
  /\ ~conn.connected


(***************************************************************************)
(* Claims about the capture of an utterance and its upload                 *)
(***************************************************************************)

\* C31: The maximum-duration timer of the turn client stops a recording that
\* is still in progress when the timer runs: after the callback of the
\* timeout set by the startListening that began the recording, the recorder
\* no longer records.
C31_MaxDurationStops ==
  [][\A t \in mic.timeouts, size \in ChunkSizes :
       (/\ RecordingTimeout(t, size)
        /\ mic.recorder = "recording"
        /\ t.rec = mic.recordings)
         => mic'.recorder # "recording"]_vars

\* C32: No client transmits an utterance of fewer than 1000 bytes: every
\* audioChunk and transcribeAudio message the server has received carries at
\* least 1000 bytes.
C32_NoUndersizedUpload ==
  \A i \in 1..Len(calls) :
    calls[i].kind \in {"audioChunk", "transcribeAudio"}
      => calls[i].payload.byteLength >= MIN_BLOB_BYTES

\* C33: When the transcription of an audioChunk of the turn client has failed
\* and the server has reported it through the acknowledgment, the client
\* resends the audioChunk or, after its second retry, shows the failure
\* status; an utterance is emitted at most 3 times.
C33_FailureResent ==
  \A u \in 1..Len(mic.uploads) :
    LET up == mic.uploads[u]
        c == calls[up.call]
    IN /\ up.emits <= maxAudioRetries + 1
       /\ (/\ up.handled
           /\ c.pc = "done"
           /\ c.failed
           /\ c.acks # <<>>
           /\ c.acks[Len(c.acks)] = "failure")
            => \/ up.timer
               \/ page.status = "Failed to transcribe"


(***************************************************************************)
(* Claims about what the page shows                                        *)
(***************************************************************************)

BusyMessage == "Still processing previous audio"

\* C34: The error listener that handles the 'error' event of a Busy rejection
\* leaves the transcription and the translation on display as they are.
C34_BusyKeepsDisplay ==
  [][(PageError /\ NextEvent.message = BusyMessage)
       => /\ page'.transcription = page.transcription
          /\ page'.translation = page.translation]_vars

\* The page has handled the error of a Busy rejection while it showed the
\* transcription of the utterance in flight.
C34_Witness ==
  /\ \E e \in AllEmitted :
       e.event = "error" /\ e.message = BusyMessage /\ e.at = link.seen
  /\ page.transcription # <<>>
  /\ CycleInFlight

\* Nothing of the session is left to be done.
Quiet ==
  /\ ~Arrived
  /\ ~Pending
  /\ \A i \in 1..Len(calls) : calls[i].pc = "done"
  /\ \A u \in 1..Len(mic.uploads) :
       mic.uploads[u].handled /\ ~mic.uploads[u].timer

\* C35: Once a cycle of the streaming client has completed without an error
\* (the audio was sent, the transcription and the translation are on display,
\* the speech was played to its end) and nothing is left to be done,
\* isTranslating is false.
C35_TranslatingReset ==
  (/\ mic.client = "streaming"
   /\ mic.recordings > 0
   /\ page.transcription # <<>>
   /\ page.translation # <<>>
   /\ page.playback = "ended"
   /\ \A e \in AllEmitted : e.event # "error"
   /\ Quiet)
    => ~page.isTranslating

=============================================================================
